---- MODULE Spec2Model ----
(***************************************************************************)
(* A model of the blue-code identifier randomizer: the modem controller    *)
(* (restart_modem, set_imei), the network configurator and BSSID manager,  *)
(* the log wiper and the command-line orchestrator.  Every operation       *)
(* records the shell and AT commands it issues in the trace `cmds`, which  *)
(* is what the properties below talk about.                                *)
(***************************************************************************)
EXTENDS Integers, Sequences, FiniteSets, TLC

VARIABLES
    pc,        \* control position of the running operation
    args,      \* the inputs the running operation was called with
    ret,       \* its return value: "none" until it returns, then "true"/"false"
    cmds,      \* every shell / AT command issued so far, in order
    device,    \* does the modem's device node (tty_device) exist right now
    elapsed,   \* seconds elapsed in the current wait_for_device_state call; draws
               \* other code made from the random generator between two calls
    attempt,   \* restart_modem: number of the IMSI attempt in progress
    hist,      \* restart_modem: what the call observed so far;
               \* generate_random_imei: the state of the random generator
    world,     \* external state an operation changes (radio, files, configuration)
    calls,     \* the sub-operations called so far, each with the value it returned
    success    \* the orchestrator's running success flag

vars == <<pc, args, ret, cmds, device, elapsed, attempt, hist, world, calls, success>>

----------------------------------------------------------------------------
(* Bounds of the model.                                                    *)

\* Largest extra delay (seconds) one sleep or poll may take beyond its interval.
MaxJitter == 1

----------------------------------------------------------------------------
(* Small helpers.                                                          *)

Count(s, x) == Cardinality({i \in 1..Len(s) : s[i] = x})

IndexOf(s, x) == IF \E i \in 1..Len(s) : s[i] = x
                 THEN CHOOSE i \in 1..Len(s) : s[i] = x /\ \A j \in 1..(i-1) : s[j] # x
                 ELSE 0

Min(a, b) == IF a < b THEN a ELSE b

BoolStr(b) == IF b THEN "true" ELSE "false"

----------------------------------------------------------------------------
(* The AT command channel.  A response is the text the modem sent back,    *)
(* kept as its sequence of \b-delimited tokens: a word, or a run of        *)
(* decimal digits of a given length.                                       *)

W(w) == [w |-> w, n |-> 0]
D(n) == [w |-> "", n |-> n]

Responses ==
    { << >>,                    \* nothing read
      <<W("OK")>>,              \* plain OK
      <<W("ok")>>,              \* lower-case ok
      <<W("ERROR")>>,           \* plain ERROR
      <<D(15), W("OK")>>,       \* a 15-digit identity, then OK
      <<D(15), W("ERROR")>>,    \* a 15-digit identity, no OK
      <<D(5), W("OK")>>,        \* digits too short for any identity
      <<D(20), W("OK")>> }      \* an ICCID-sized run

\* re.search(r"\bOK\b", out, re.IGNORECASE)
HasOK(out) == \E i \in 1..Len(out) : out[i].w \in {"OK", "ok", "Ok", "oK"}

\* Cmd.run_gl_modem / run_serial_command: exit code 0 iff the response holds OK.
AtCode(out) == IF HasOK(out) THEN 0 ELSE 1

AtOutcomes == { [out |-> r, code |-> AtCode(r)] : r \in Responses }

\* re.search(r'\b([0-9]{lo,hi})\b', output): length of the first digit run whose
\* length lies in lo..hi, 0 (None) if there is none or the output is empty.
FirstDigits(out, lo, hi) ==
    LET hits == {i \in 1..Len(out) : out[i].n >= lo /\ out[i].n <= hi}
    IN  IF hits = {} THEN 0
        ELSE out[CHOOSE i \in hits : \A j \in hits : i <= j].n

get_imsi(out) == FirstDigits(out, 6, 15)

\* get_imei: r'\b([0-9]{14,15})\b'; get_iccid: r'\b([0-9]{18,22})\b'.
get_imei(out) == FirstDigits(out, 14, 15)
get_iccid(out) == FirstDigits(out, 18, 22)

----------------------------------------------------------------------------
(* The external state the operations act on.                               *)

ImeiFile == "/tmp/modem.1-1.2/modem-imei"
RebootMarker == "/tmp/reboot_required"

\* Device entries network.@device[0..MaxDev] may exist in the configuration.
MaxDev == 1

\* Number of command outcomes drawn per call (no operation issues more commands
\* whose outcome matters).
EnvLen == 5

Str(i) == <<"0", "1", "2", "3", "4", "5", "6", "7", "8", "9">>[i + 1]

\* Device indices a call may address.
DevIndices == 0..(MaxDev + 1)

\* Configuration keys the tool writes.
DevKeys == [i \in DevIndices |-> "network.@device[" \o Str(i) \o "].macaddr"]
DevKey(i) == DevKeys[i]
WanKey == "network.wan.macaddr"
CloneKey == "glconfig.general.macclone_addr"
WifiKeys == [i \in 0..1 |-> "wireless.@wifi-iface[" \o Str(i) \o "].macaddr"]
WifiKey(i) == WifiKeys[i]

Packages == {"network", "glconfig", "wireless"}
PackageKeysOf ==
    [p \in Packages |->
        CASE p = "network"  -> {DevKey(i) : i \in DevIndices} \cup {WanKey}
          [] p = "glconfig" -> {CloneKey}
          [] p = "wireless" -> {WifiKey(i) : i \in 0..1}]
PackageKeys(p) == PackageKeysOf[p]
Keys == UNION {PackageKeys(p) : p \in Packages}

\* Shell commands, without the random MAC value they carry.
UciGetDevCmd == [i \in DevIndices |-> "uci get network.@device[" \o Str(i) \o "]"]
UciGetDev(i) == UciGetDevCmd[i]
UciSetCmd == [k \in Keys |-> "uci set " \o k]
UciSet(k) == UciSetCmd[k]
UciCommitCmd == [p \in Packages |-> "uci commit " \o p]
UciCommit(p) == UciCommitCmd[p]
IpDown == "ip link set eth0 down"
IpAddress == "ip link set eth0 address"
IpUp == "ip link set eth0 up"
NetworkRestart == "/etc/init.d/network restart"
WifiReset == "wifi"
LsNet == "ls -1 /sys/class/net/"

\* The files the log manager looks at.
LOG_FILES == <<"/var/log/messages", "/var/log/syslog", "/var/log/daemon.log",
               "/var/log/wifi.log", "/var/log/firewall.log", "/tmp/dhcp.leases",
               "/tmp/dhcp.log", "/tmp/dnsmasq.log", "/tmp/state/dhcp.leases">>
LOG_DIRS == <<"/var/log/", "/tmp/log/", "/tmp/run/">>
RELATED_SERVICES == <<"gl-tertf", "gl_clients", "log", "syslog", "rsyslog", "syslog-ng">>
CLIENT_DB_FILE == "/etc/oui-tertf/client.db"

\* Files outside the fixed list that may lie in a log directory.
OtherFiles == <<"/tmp/log/hostapd", "/tmp/run/clients.json">>

Range(s) == {s[i] : i \in 1..Len(s)}

Paths == Range(LOG_FILES) \cup Range(OtherFiles)

\* os.listdir(log_dir) joined with log_dir: the files lying in the directory itself.
DirFiles(d) ==
    CASE d = "/var/log/" -> SubSeq(LOG_FILES, 1, 5)
      [] d = "/tmp/log/" -> <<"/tmp/log/hostapd">>
      [] d = "/tmp/run/" -> <<"/tmp/run/clients.json">>

\* any(filepath.endswith(ext) for ext in extensions)
HasLogExtension(p) ==
    p \in {"/var/log/daemon.log", "/var/log/wifi.log", "/var/log/firewall.log",
           "/tmp/dhcp.leases", "/tmp/dhcp.log", "/tmp/dnsmasq.log",
           "/tmp/state/dhcp.leases", "/tmp/run/clients.json"}

\* Shell commands of the log manager.
MountTmp == "mount -t tmpfs tmpfs <tmp_dir>"
CpBackup == "cp -a /etc/oui-tertf/client.db <tmp_dir>/"
ShredCmd == [p \in Paths \cup {CLIENT_DB_FILE} |-> "shred --force --zero --remove " \o p]
Shred(p) == ShredCmd[p]
UmountDb == "umount -t tmpfs -l /etc/oui-tertf"
MountDb == "mount -t tmpfs tmpfs /etc/oui-tertf"
CpRestore == "cp -a <tmp_dir>/client.db /etc/oui-tertf/"
UmountTmp == "umount -t tmpfs -l <tmp_dir>"
DmesgClear == "dmesg -c > /dev/null"
Sync == "sync"
DropCaches == "echo 1 > /proc/sys/vm/drop_caches"
ServiceRestartCmd == [sv \in Range(RELATED_SERVICES) |-> "/etc/init.d/" \o sv \o " restart"]
ServiceRestart(sv) == ServiceRestartCmd[sv]
LsInit == "ls -la /etc/rc.d/S*gl-mac-security 2>/dev/null"

\* radio: the modem's radio function; nvimei: the IMEI written to the modem by
\* AT+EGMR (<< >>: still the factory value); files: files written by the tool;
\* rebooting: /sbin/reboot was run; devices: the device entries of the network
\* configuration; eth0: does interface eth0 exist; staged / committed: keys set
\* with "uci set" and not yet committed / committed; linkmac: eth0's hardware
\* address was changed; restarted: services restarted; fs: what each log file holds
\* ("absent", "mac": text with MAC addresses, "clean": text without any); newfiles:
\* the files p for which a temporary p.new exists; shredded: the files whose data was
\* destroyed by a secure delete; dbdir: /etc/oui-tertf exists; dbdisk / dbram:
\* client.db exists on persistent storage / in the tmpfs mounted over /etc/oui-tertf;
\* mounts: the tmpfs mounts in place ("tmp": on the scratch directory, "db": on
\* /etc/oui-tertf); tmpdir: the scratch directory exists; backup: where the scratch
\* copy of client.db lies ("none", "ram", "disk"); dmesg: the kernel ring buffer;
\* flushed: sync / drop_caches done; initscript: the boot-time script
\* /etc/init.d/gl-mac-security is "missing", "disabled" or "enabled".
World0 == [radio |-> "enabled", nvimei |-> << >>, files |-> {}, rebooting |-> FALSE,
           devices |-> {}, eth0 |-> TRUE, staged |-> {}, committed |-> {},
           linkmac |-> FALSE, restarted |-> {},
           fs |-> [p \in Paths |-> "absent"], newfiles |-> {}, shredded |-> {},
           dbdir |-> TRUE, dbdisk |-> FALSE, dbram |-> FALSE, mounts |-> {},
           tmpdir |-> FALSE, backup |-> "none", dmesg |-> "dirty", flushed |-> {},
           initscript |-> "enabled"]

\* os.path.exists(filepath)
FileExists(w, p) ==
    IF p = CLIENT_DB_FILE
    THEN IF "db" \in w.mounts THEN w.dbram ELSE w.dbdisk
    ELSE w.fs[p] # "absent"

\* The file at path p is gone.
Remove(w, p) ==
    IF p = CLIENT_DB_FILE
    THEN IF "db" \in w.mounts THEN [w EXCEPT !.dbram = FALSE]
                              ELSE [w EXCEPT !.dbdisk = FALSE]
    ELSE [w EXCEPT !.fs[p] = "absent"]

\* The commands of each kind, and what a command of the kind is about.
UciSetCmds == {UciSet(k) : k \in Keys}
UciCommitCmds == {UciCommit(p) : p \in Packages}
ShredCmds == {Shred(p) : p \in Paths \cup {CLIENT_DB_FILE}}
ServiceRestartCmds == {ServiceRestart(sv) : sv \in Range(RELATED_SERVICES)}
KeyOf == [c \in UciSetCmds |-> CHOOSE k \in Keys : UciSet(k) = c]
PackageOf == [c \in UciCommitCmds |-> CHOOSE p \in Packages : UciCommit(p) = c]
PathOf == [c \in ShredCmds |-> CHOOSE p \in Paths \cup {CLIENT_DB_FILE} : Shred(p) = c]
ServiceOf ==
    [c \in ServiceRestartCmds |-> CHOOSE sv \in Range(RELATED_SERVICES) :
                                     ServiceRestart(sv) = c]

\* What a shell command does when it succeeds.
Effect(w, c) ==
    IF c \in UciSetCmds THEN [w EXCEPT !.staged = @ \cup {KeyOf[c]}]
    ELSE IF c \in UciCommitCmds
    THEN [w EXCEPT !.committed = @ \cup (w.staged \cap PackageKeys(PackageOf[c])),
                   !.staged = @ \ PackageKeys(PackageOf[c])]
    ELSE IF c = IpAddress THEN [w EXCEPT !.linkmac = TRUE]
    ELSE IF c = NetworkRestart THEN [w EXCEPT !.restarted = @ \cup {"network"}]
    ELSE IF c = WifiReset THEN [w EXCEPT !.restarted = @ \cup {"wifi"}]
    ELSE IF c \in ShredCmds
    THEN [Remove(w, PathOf[c]) EXCEPT !.shredded = @ \cup {PathOf[c]}]
    ELSE IF c = MountTmp THEN [w EXCEPT !.mounts = @ \cup {"tmp"}]
    ELSE IF c = CpBackup
    THEN [w EXCEPT !.backup = IF "tmp" \in w.mounts THEN "ram" ELSE "disk"]
    ELSE IF c = UmountDb
    THEN IF "db" \in w.mounts
         THEN [w EXCEPT !.mounts = @ \ {"db"}, !.dbram = FALSE]
         ELSE w
    ELSE IF c = MountDb THEN [w EXCEPT !.mounts = @ \cup {"db"}, !.dbram = FALSE]
    ELSE IF c = CpRestore
    THEN IF "db" \in w.mounts THEN [w EXCEPT !.dbram = TRUE]
                              ELSE [w EXCEPT !.dbdisk = TRUE]
    ELSE IF c = UmountTmp
    THEN [w EXCEPT !.mounts = @ \ {"tmp"},
                   !.backup = IF "tmp" \in w.mounts /\ @ = "ram" THEN "none" ELSE @]
    ELSE IF c = DmesgClear THEN [w EXCEPT !.dmesg = "cleared"]
    ELSE IF c = Sync THEN [w EXCEPT !.flushed = @ \cup {"sync"}]
    ELSE IF c = DropCaches THEN [w EXCEPT !.flushed = @ \cup {"drop_caches"}]
    ELSE IF c \in ServiceRestartCmds
    THEN [w EXCEPT !.restarted = @ \cup {ServiceOf[c]}]
    ELSE w

\* A command ends "ok" (exit code 0), "fail" (nonzero exit code) or "raise" (the
\* executor raises instead of returning); it takes effect only when it ends "ok".
Run(w, c, o) == IF o = "ok" THEN Effect(w, c) ELSE w

\* Run the commands cs[i..] one after the other with outcomes es[i..], stopping
\* at the first that raises.
RECURSIVE RunSeq(_, _, _, _)
RunSeq(w, cs, es, i) ==
    IF i > Len(cs) THEN [raised |-> FALSE, cmds |-> << >>, world |-> w]
    ELSE IF es[i] = "raise" THEN [raised |-> TRUE, cmds |-> <<cs[i]>>, world |-> w]
    ELSE LET r == RunSeq(Run(w, cs[i], es[i]), cs, es, i + 1)
         IN  [r EXCEPT !.cmds = <<cs[i]>> \o @]

\* Outcome sequences e[1..EnvLen], then e shifted by k positions.
Shift(e, k) == [i \in 1..(Len(e) - k) |-> e[i + k]]

\* SystemCommand.run_command (bluecode.core.system): returns (output, exit code)
\* and never raises.
SystemCommandOutcomes == {"ok", "fail"}

\* Cmd.run_command: subprocess.run(check=False), every exception caught.
CmdOutcomes == {"ok", "fail"}

----------------------------------------------------------------------------
(* ModemController.restart_modem                                           *)

GoneTimeout == 30
GonePoll == 1
PresentTimeout == 60
PresentPoll == 2
max_attempts == 10

\* qpowd: exit code of AT+QPOWD (-1 before it ran); gone / present: result of the
\* two waits ("none" before they ended); imsi: the result of every get_imsi call;
\* gone_polls / present_polls: the os.path.exists checks each wait made so far;
\* cimi: the exit code of the latest AT+CIMI exchange (-1 before the first).
NoHist == [qpowd |-> -1, gone |-> "none", present |-> "none", imsi |-> << >>,
           gone_polls |-> 0, present_polls |-> 0, cimi |-> -1]

InitModem ==
    /\ pc = "restart_modem"
    /\ args = [op |-> "restart_modem"]
    /\ ret = "none"
    /\ cmds = << >>
    /\ device \in BOOLEAN
    /\ elapsed = 0
    /\ attempt = 0
    /\ hist = NoHist
    /\ world = World0
    /\ calls = << >>
    /\ success = TRUE

\* The device node appears or disappears while the call is blocked.
DeviceChange ==
    /\ pc \in {"wait_gone", "wait_present", "verify"}
    /\ device' = ~device
    /\ UNCHANGED <<calls, success, pc, args, ret, cmds, elapsed, attempt, hist, world>>

\* restart_modem, lines 186-191: issue AT+QPOWD; a failure is only logged.
RestartModemPowerDown ==
    /\ pc = "restart_modem"
    /\ \E o \in AtOutcomes :
          /\ cmds' = Append(cmds, "AT+QPOWD")
          /\ hist' = [hist EXCEPT !.qpowd = o.code]
    /\ pc' = "wait_gone"
    /\ elapsed' = 0
    /\ UNCHANGED <<calls, success, args, ret, device, attempt, world>>

\* Mutant: the loop has no timeout, it runs until the state is reached.
WaitResultNoTimeout(should_exist, timeout) ==
    IF device = should_exist THEN "true" ELSE "none"

\* One iteration of wait_for_device_state(should_exist, timeout, poll_interval):
\* result is "true" (state reached), "false" (timed out) or "none" (slept, loop).
WaitResult(should_exist, timeout) ==
    IF elapsed < timeout
    THEN IF device = should_exist THEN "true" ELSE "none"
    ELSE "false"

\* Did the iteration that ended with r look at the device node?  The loop
\* condition fails before the check when the timeout has elapsed.
Checked(r) == IF r = "false" THEN 0 ELSE 1

\* Mutant: a device that does not vanish fails the restart.
WaitGoneFatal ==
    /\ pc = "wait_gone"
    /\ LET r == WaitResult(FALSE, GoneTimeout) IN
          IF r = "none"
          THEN /\ \E j \in 0..MaxJitter :
                     elapsed' = Min(elapsed + GonePoll + j, GoneTimeout)
               /\ hist' = [hist EXCEPT !.gone_polls = @ + 1]
               /\ UNCHANGED <<pc, ret>>
          ELSE /\ hist' = [hist EXCEPT !.gone = r,
                                       !.gone_polls = @ + Checked(r)]
               /\ elapsed' = 0
               /\ IF r = "true"
                  THEN pc' = "wait_present" /\ ret' = ret
                  ELSE pc' = "done" /\ ret' = "false"
    /\ UNCHANGED <<calls, success, args, cmds, device, attempt, world>>

\* wait_for_device_gone(timeout=30); not vanishing is only logged.
WaitGone ==
    /\ pc = "wait_gone"
    /\ LET r == WaitResult(FALSE, GoneTimeout) IN
          IF r = "none"
          THEN /\ \E j \in 0..MaxJitter :
                     elapsed' = Min(elapsed + GonePoll + j, GoneTimeout)
               /\ hist' = [hist EXCEPT !.gone_polls = @ + 1]
               /\ UNCHANGED pc
          ELSE /\ hist' = [hist EXCEPT !.gone = r,
                                       !.gone_polls = @ + Checked(r)]
               /\ pc' = "wait_present"
               /\ elapsed' = 0
    /\ UNCHANGED <<calls, success, args, ret, cmds, device, attempt, world>>

\* Mutant: the "return False" after the reappearance timeout is missing.
WaitPresentNoReturn ==
    /\ pc = "wait_present"
    /\ LET r == WaitResult(TRUE, PresentTimeout) IN
          IF r = "none"
          THEN /\ \E j \in 0..MaxJitter :
                     elapsed' = Min(elapsed + PresentPoll + j, PresentTimeout)
               /\ hist' = [hist EXCEPT !.present_polls = @ + 1]
               /\ UNCHANGED <<pc, attempt>>
          ELSE /\ hist' = [hist EXCEPT !.present = r,
                                       !.present_polls = @ + Checked(r)]
               /\ elapsed' = 0
               /\ pc' = "verify"
               /\ attempt' = 1
    /\ UNCHANGED <<calls, success, args, ret, cmds, device, world>>

\* wait_for_device_present(timeout=60); not reappearing fails the restart.
WaitPresent ==
    /\ pc = "wait_present"
    /\ LET r == WaitResult(TRUE, PresentTimeout) IN
          IF r = "none"
          THEN /\ \E j \in 0..MaxJitter :
                     elapsed' = Min(elapsed + PresentPoll + j, PresentTimeout)
               /\ hist' = [hist EXCEPT !.present_polls = @ + 1]
               /\ UNCHANGED <<pc, ret, attempt>>
          ELSE /\ hist' = [hist EXCEPT !.present = r,
                                       !.present_polls = @ + Checked(r)]
               /\ elapsed' = 0
               /\ IF r = "true"
                  THEN pc' = "verify" /\ attempt' = 1 /\ ret' = ret
                  ELSE pc' = "done" /\ ret' = "false" /\ attempt' = attempt
    /\ UNCHANGED <<calls, success, args, cmds, device, world>>

\* One pass of the verification loop, lines 208-218: query the IMSI, return True
\* on the first one obtained.
VerifyAttempt ==
    /\ pc = "verify"
    /\ attempt <= max_attempts
    /\ \E o \in AtOutcomes :
          /\ cmds' = Append(cmds, "AT+CIMI")
          /\ hist' = [hist EXCEPT !.imsi = Append(@, get_imsi(o.out)),
                                  !.cimi = o.code]
          /\ IF get_imsi(o.out) # 0
             THEN /\ ret' = "true"
                  /\ pc' = "done"
                  /\ attempt' = attempt
             ELSE /\ attempt' = attempt + 1
                  /\ UNCHANGED <<ret, pc>>
    /\ UNCHANGED <<calls, success, args, device, elapsed, world>>

\* Mutant: running out of attempts is reported as success.
VerifyExhaustedReturnsTrue ==
    /\ pc = "verify"
    /\ attempt > max_attempts
    /\ ret' = "true"
    /\ pc' = "done"
    /\ UNCHANGED <<calls, success, args, cmds, device, elapsed, attempt, hist, world>>

\* The loop ran out of attempts, lines 220-221.
VerifyExhausted ==
    /\ pc = "verify"
    /\ attempt > max_attempts
    /\ ret' = "false"
    /\ pc' = "done"
    /\ UNCHANGED <<calls, success, args, cmds, device, elapsed, attempt, hist, world>>

NextModem ==
    \/ RestartModemPowerDown
    \/ WaitGone
    \/ WaitPresent
    \/ VerifyAttempt
    \/ VerifyExhausted
    \/ DeviceChange

SpecModem == InitModem /\ [][NextModem]_vars

\* The statements of restart_modem itself.  The call is one sequential thread:
\* every sleep and every AT exchange returns, so its next statement is taken.
RestartModemStep ==
    \/ RestartModemPowerDown
    \/ WaitGone
    \/ WaitPresent
    \/ VerifyAttempt
    \/ VerifyExhausted

SpecModemFair == SpecModem /\ WF_vars(RestartModemStep)

ImsiQueries == Count(cmds, "AT+CIMI")

GotImsi == \E i \in 1..Len(hist.imsi) : hist.imsi[i] # 0

\* C7: in restart_modem, when the device node does not reappear within the
\* reappearance timeout the call returns failure and no AT+CIMI is ever issued;
\* no IMSI query is issued before the device was seen present.
C7_NoReappearNoImsiPoll ==
    /\ hist.present = "false" => (pc = "done" /\ ret = "false" /\ ImsiQueries = 0)
    /\ hist.present # "true" => (ImsiQueries = 0 /\ hist.imsi = << >>)

C7_Witness == pc = "done" /\ hist.present = "false" /\ hist.qpowd = 0

\* C8: restart_modem returns success iff the device was seen present and one of at
\* most 10 IMSI queries returned an IMSI; the query that yields an IMSI is the last
\* one issued; failure after a successful reappearance means 10 empty queries.
C8_SuccessIffImsiWithinTen ==
    /\ ImsiQueries = Len(hist.imsi)
    /\ ImsiQueries <= 10
    /\ \A i \in 1..(Len(hist.imsi) - 1) : hist.imsi[i] = 0
    /\ pc = "done" =>
          /\ ret = "true" <=> (hist.present = "true" /\ GotImsi)
          /\ (ret = "false" /\ hist.present = "true") =>
                (ImsiQueries = 10 /\ \A i \in 1..10 : hist.imsi[i] = 0)
    /\ pc # "done" => (ret = "none" /\ ~GotImsi)

C8_Witness ==
    /\ pc = "done" /\ ret = "true"
    /\ Len(hist.imsi) = 4 /\ hist.imsi[4] = 15

C8_WitnessExhausted == pc = "done" /\ ret = "false" /\ ImsiQueries = 10

\* The most checks a wait of `timeout` seconds polling every `poll` seconds makes.
MaxPolls(timeout, poll) == (timeout + poll - 1) \div poll

\* C31: restart_modem always terminates.  Each wait makes a bounded number of
\* device checks (it ends when the desired state is seen or its timeout of 30 s
\* / 60 s elapsed), the verification phase issues at most 10 IMSI queries, and
\* whatever the device node and the modem do the call eventually returns.
C31_RestartModemTerminates ==
    /\ [](/\ hist.gone_polls <= MaxPolls(GoneTimeout, GonePoll)
          /\ hist.present_polls <= MaxPolls(PresentTimeout, PresentPoll)
          /\ ImsiQueries <= max_attempts
          /\ pc = "wait_gone" => elapsed <= GoneTimeout
          /\ pc = "wait_present" => elapsed <= PresentTimeout
          /\ hist.gone = "false" => hist.gone_polls >= 1
          /\ pc = "done" => ret \in {"true", "false"})
    /\ <>(pc = "done")

\* Both waits ran to their timeout and every IMSI query was used.
C31_Witness ==
    /\ pc = "done" /\ ret = "false"
    /\ hist.gone = "false" /\ hist.gone_polls >= 15
    /\ hist.present = "true" /\ hist.present_polls >= 15
    /\ ImsiQueries = max_attempts

\* C9: a failed AT+QPOWD or a device that never disappears does not fail
\* restart_modem: the reappearance wait still runs, and the call succeeds when the
\* device is present and an IMSI query answers.
C9_PowerDownFailureNotFatal ==
    (pc = "done" /\ (hist.qpowd # 0 \/ hist.gone = "false")) =>
        /\ hist.present # "none"
        /\ (hist.present = "true" /\ GotImsi) => ret = "true"
        /\ ret = "false" => (hist.present = "false" \/ ImsiQueries = 10)

C9_Witness ==
    /\ pc = "done" /\ ret = "true"
    /\ hist.qpowd # 0 /\ hist.gone = "false"

----------------------------------------------------------------------------
(* ModemController.set_imei                                                *)

\* Longest tail of arbitrary characters appended to a run of digits to build the
\* IMEI arguments set_imei is tried on.
MaxTail == 2

\* A string is the sequence of its characters, each kept as its class: "d" an ASCII
\* digit, "u" another Unicode decimal digit, "n" a newline, "x" anything else.
Chars == {"d", "u", "n", "x"}

Digits(n) == [i \in 1..n |-> "d"]

Tails == UNION { [1..k -> Chars \ {"d"}] : k \in 0..MaxTail }

ImeiInputs == { Digits(n) \o t : n \in 13..16, t \in Tails }

\* re.match(r'^\d{15}$', imei): \d is any Unicode decimal digit, and $ matches at
\* the end of the string and also just before a newline that ends the string.
MatchImei(imei) ==
    /\ Len(imei) >= 15
    /\ \A i \in 1..15 : imei[i] \in {"d", "u"}
    /\ \/ Len(imei) = 15
       \/ Len(imei) = 16 /\ imei[16] = "n"

\* Outcomes of the steps of set_imei: exit codes of AT+CFUN=4 and AT+EGMR, whether
\* the status file / marker file could be written, and how /sbin/reboot ended: "ok"
\* (exit code 0, the system goes down), "fail" (nonzero exit code, no reboot) or
\* "raise" (the program could not be started).
EnvImei == [cfun : {0, 1}, egmr : {0, 1}, save : BOOLEAN,
            reboot : {"ok", "fail", "raise"}, marker : BOOLEAN]

\* Mutant: a radio that could not be disabled is switched back on.
disable_radio_resets(w, code) ==
    [ok |-> code = 0,
     world |-> [w EXCEPT !.radio = IF code = 0 THEN "disabled" ELSE "enabled"]]

\* disable_radio: AT+CFUN=4; the radio is off iff the modem answered OK.
disable_radio(w, code) ==
    [ok |-> code = 0,
     world |-> IF code = 0 THEN [w EXCEPT !.radio = "disabled"] ELSE w]

\* Mutant: the exit code of the IMEI write is not looked at.
WriteFailureIgnored(code) == FALSE

\* set_imei, lines 370-372: the IMEI write reported failure.
WriteFailed(code) == code # 0

\* Mutant: the marker is written whether or not a reboot was asked for.
MarkerAlways(reboot_after) == TRUE

\* set_imei, lines 389 and 401: the marker file is for the call without reboot.
MarkerWanted(reboot_after) == ~reboot_after

\* Mutant: the IMEI write is left out when the radio could not be disabled.
ImeiSentUnlessRadioFailed(e) ==
    IF e.cfun = 0
    THEN [cmds |-> <<"AT+CFUN=4", "AT+EGMR=1,7">>,
          calls |-> <<[op |-> "disable_radio", arg |-> "", ret |-> "true"],
                      [op |-> "run_at_command", arg |-> "AT+EGMR=1,7",
                       ret |-> IF e.egmr = 0 THEN "0" ELSE "1"]>>]
    ELSE [cmds |-> <<"AT+CFUN=4">>,
          calls |-> <<[op |-> "disable_radio", arg |-> "", ret |-> "false"]>>]

\* What set_imei has done once AT+CFUN=4 and AT+EGMR were sent: the two
\* commands and the results they gave.
ImeiSent(e) ==
    [cmds |-> <<"AT+CFUN=4", "AT+EGMR=1,7">>,
     calls |-> <<[op |-> "disable_radio", arg |-> "", ret |-> BoolStr(e.cfun = 0)],
                 [op |-> "run_at_command", arg |-> "AT+EGMR=1,7",
                  ret |-> IF e.egmr = 0 THEN "0" ELSE "1"]>>]

\* set_imei, lines 376-383 and 401-407: the status file, and the marker when wanted.
ImeiFiles(w, reboot_after, e) ==
    [w EXCEPT !.files = @ \cup (IF e.save THEN {ImeiFile} ELSE {})
                          \cup (IF MarkerWanted(reboot_after) /\ e.marker
                                THEN {RebootMarker} ELSE {})]

\* Mutant: a marker file that cannot be written makes the call fail.
set_imei_marker_error_fails(imei, reboot_after, w, e) ==
    IF ~MatchImei(imei)
    THEN [ret |-> "false", cmds |-> << >>, calls |-> << >>, world |-> w]
    ELSE
      LET w1 == [disable_radio(w, e.cfun).world EXCEPT
                    !.nvimei = IF e.egmr = 0 THEN imei ELSE @]
          c2 == ImeiSent(e).cmds
          k2 == ImeiSent(e).calls
          w2 == ImeiFiles(w1, reboot_after, e)
      IN  IF WriteFailed(e.egmr)
          THEN [ret |-> "false", cmds |-> c2, calls |-> k2, world |-> w1]
          ELSE IF reboot_after /\ e.reboot # "raise"
          THEN [ret |-> "true", cmds |-> Append(c2, "/sbin/reboot"), calls |-> k2,
                world |-> [w2 EXCEPT !.rebooting = (e.reboot = "ok")]]
          ELSE [ret |-> BoolStr(~reboot_after /\ e.marker), cmds |-> c2,
                calls |-> k2, world |-> w2]

\* set_imei(imei, reboot_after) run in world w with step outcomes e: the value
\* returned, the commands issued, the sub-calls made and the world left behind.
\* The modem holds the new IMEI iff AT+EGMR answered OK.
set_imei(imei, reboot_after, w, e) ==
    IF ~MatchImei(imei)
    THEN [ret |-> "false", cmds |-> << >>, calls |-> << >>, world |-> w]
    ELSE
      LET w1 == [disable_radio(w, e.cfun).world EXCEPT
                    !.nvimei = IF e.egmr = 0 THEN imei ELSE @]
          c2 == ImeiSent(e).cmds
          k2 == ImeiSent(e).calls
      IN  IF WriteFailed(e.egmr)
          THEN [ret |-> "false", cmds |-> c2, calls |-> k2, world |-> w1]
          ELSE
            LET w2 == ImeiFiles(w1, reboot_after, e)
            IN  IF reboot_after
                THEN IF e.reboot = "raise"
                     THEN [ret |-> "false", cmds |-> c2, calls |-> k2, world |-> w2]
                     ELSE [ret |-> "true", cmds |-> Append(c2, "/sbin/reboot"),
                           calls |-> k2,
                           world |-> [w2 EXCEPT !.rebooting = (e.reboot = "ok")]]
                ELSE [ret |-> "true", cmds |-> c2, calls |-> k2, world |-> w2]

InitImei ==
    /\ pc = "set_imei"
    /\ \E imei \in ImeiInputs, reboot_after \in BOOLEAN, r \in {"enabled", "disabled"} :
          /\ args = [op |-> "set_imei", imei |-> imei, reboot_after |-> reboot_after,
                     radio0 |-> r]
          /\ world = [World0 EXCEPT !.radio = r]
    /\ ret = "none"
    /\ cmds = << >>
    /\ device = TRUE
    /\ elapsed = 0
    /\ attempt = 0
    /\ hist = NoHist
    /\ calls = << >>
    /\ success = TRUE

SetImeiCall ==
    /\ pc = "set_imei"
    /\ \E e \in EnvImei :
          LET r == set_imei(args.imei, args.reboot_after, world, e) IN
             /\ ret' = r.ret
             /\ cmds' = cmds \o r.cmds
             /\ calls' = calls \o r.calls
             /\ world' = r.world
    /\ pc' = "done"
    /\ UNCHANGED <<success, args, device, elapsed, attempt, hist>>

NextImei == SetImeiCall

SpecImei == InitImei /\ [][NextImei]_vars

\* The argument is exactly 15 decimal digits (ASCII or other Unicode digits).
Exactly15Digits(imei) == Len(imei) = 15 /\ \A i \in 1..15 : imei[i] \in {"d", "u"}

\* The sub-call op of the finished set_imei call returned v.
ImeiCallReturned(op, v) == \E i \in 1..Len(calls) : calls[i].op = op /\ calls[i].ret = v

SetImeiDone == pc = "done" /\ args.op = "set_imei"

\* C11: if the IMEI-write AT command fails, set_imei returns failure and stops:
\* no status file, no reboot-required marker and no reboot, whether or not
\* reboot_after is set.
C11_WriteFailureStops ==
    (SetImeiDone /\ ImeiCallReturned("run_at_command", "1")) =>
        /\ ret = "false"
        /\ world.files = {}
        /\ ~world.rebooting
        /\ \A i \in 1..Len(cmds) : cmds[i] # "/sbin/reboot"
        /\ world.nvimei = << >>

\* A call with reboot_after set whose IMEI write failed has returned.
C11_Witness ==
    /\ SetImeiDone /\ ImeiCallReturned("run_at_command", "1")
    /\ args.reboot_after
    /\ Len(cmds) = 2

C13_WitnessMarker ==
    /\ SetImeiDone /\ ImeiCallReturned("run_at_command", "0")
    /\ ~args.reboot_after
    /\ RebootMarker \in world.files

\* C30: set_imei with a well-formed IMEI issues AT+CFUN=4 first and AT+EGMR
\* second, each once, also when AT+CFUN=4 failed.
C30_DisableBeforeWrite ==
    (SetImeiDone /\ Exactly15Digits(args.imei)) =>
        /\ Len(cmds) >= 2
        /\ cmds[1] = "AT+CFUN=4"
        /\ cmds[2] = "AT+EGMR=1,7"
        /\ Count(cmds, "AT+CFUN=4") = 1
        /\ Count(cmds, "AT+EGMR=1,7") = 1
        /\ calls[1].op = "disable_radio"
        /\ calls[2].op = "run_at_command"

\* set_imei has written the IMEI after the radio could not be disabled.
C30_Witness ==
    /\ SetImeiDone /\ Exactly15Digits(args.imei)
    /\ calls[1] = [op |-> "disable_radio", arg |-> "", ret |-> "false"]
    /\ calls[2] = [op |-> "run_at_command", arg |-> "AT+EGMR=1,7", ret |-> "0"]
    /\ cmds[2] = "AT+EGMR=1,7"
    /\ world.nvimei = args.imei
    /\ ret = "true"

\* C38 as stated: if set_imei returns failure the IMEI write was not executed
\* successfully, the modem's IMEI is unchanged and no status file was written;
\* once the IMEI write has succeeded set_imei returns success on every later
\* path.
C38_FailureMeansUnchanged ==
    SetImeiDone =>
        /\ ret = "false" =>
              /\ ~ImeiCallReturned("run_at_command", "0")
              /\ world.nvimei = << >>
              /\ ImeiFile \notin world.files
        /\ ImeiCallReturned("run_at_command", "0") => ret = "true"

\* C38, amended: set_imei returns failure either without a successful IMEI write
\* (modem IMEI unchanged, no status file) or, with reboot_after, after a
\* successful write when the reboot command could not be started; after a
\* successful write it returns success whenever no reboot was asked for or the
\* reboot command was run, whatever happened to the status and marker files.
C38_FailureUnchangedOrNoReboot ==
    SetImeiDone =>
        LET written == ImeiCallReturned("run_at_command", "0")
            reboot == \E i \in 1..Len(cmds) : cmds[i] = "/sbin/reboot"
        IN  /\ written <=> world.nvimei = args.imei
            /\ ~written => (ret = "false" /\ world.nvimei = << >> /\ world.files = {})
            /\ (written /\ ret = "false") =>
                  (args.reboot_after /\ ~reboot /\ ~world.rebooting)
            /\ (written /\ (~args.reboot_after \/ reboot)) => ret = "true"

\* The IMEI was written and saved, the reboot could not be started: failure.
C38_Witness ==
    /\ SetImeiDone /\ ret = "false"
    /\ ImeiCallReturned("run_at_command", "0")
    /\ world.nvimei = args.imei /\ ImeiFile \in world.files

\* Neither the status file nor the marker could be written: success all the same.
C38_WitnessFileErrors ==
    /\ SetImeiDone /\ ret = "true" /\ ~args.reboot_after
    /\ ImeiCallReturned("run_at_command", "0")
    /\ world.files = {}

\* C10: set_imei called with a value that is not exactly 15 decimal digits returns
\* failure at once: no AT command, no status or marker file, no reboot, and the
\* radio as it was.
C10_InvalidImeiRejected ==
    (pc = "done" /\ args.op = "set_imei" /\ ~Exactly15Digits(args.imei)) =>
        /\ ret = "false"
        /\ cmds = << >>
        /\ world = [World0 EXCEPT !.radio = args.radio0]

----------------------------------------------------------------------------
(* NetworkManager (bluecode/core/network.py), on SystemCommand.            *)

\* Commands that change the configuration store, an interface or a service.
MutatingCmds ==
    UciSetCmds \cup UciCommitCmds
    \cup {IpDown, IpAddress, IpUp, NetworkRestart, WifiReset}
    \cup ShredCmds
    \cup {MountTmp, CpBackup, UmountDb, MountDb, CpRestore, UmountTmp}
    \cup {DmesgClear, Sync, DropCaches}
    \cup ServiceRestartCmds
    \cup {"AT+CFUN=4", "AT+EGMR=1,7", "/sbin/reboot"}

RECURSIVE SortedSeq(_)
SortedSeq(S) ==
    IF S = {} THEN << >>
    ELSE LET m == CHOOSE x \in S : \A y \in S : x <= y
         IN  <<m>> \o SortedSeq(S \ {m})

UciShowDevices == "uci show network | grep '@device'"

\* A line of the listing: "network.@device[<digits>]..." with its digits, or a
\* line the pattern does not match (no digits between the brackets, another
\* section).
DeviceLine(ds) == [digits |-> ds]
OtherLine == [digits |-> << >>]

DigitValue == [c \in {"0", "1", "2", "3", "4", "5", "6", "7", "8", "9"} |->
                 CHOOSE n \in 0..9 : Str(n) = c]

\* int(d) of a digit string.
RECURSIVE IntOf(_)
IntOf(ds) ==
    IF ds = << >> THEN 0
    ELSE 10 * IntOf(SubSeq(ds, 1, Len(ds) - 1)) + DigitValue[ds[Len(ds)]]

\* [int(d) for d in re.findall(r"network\.@device\[(\d+)\]", text)]
RECURSIVE findall_devices(_)
findall_devices(out) ==
    IF out = << >> THEN << >>
    ELSE (IF Head(out).digits = << >> THEN << >> ELSE <<IntOf(Head(out).digits)>>)
         \o findall_devices(Tail(out))

\* get_network_devices on the listing text out, the command having ended o.
get_network_devices(out, o) ==
    IF o = "raise" THEN <<0>> ELSE findall_devices(out)

\* What "uci show network | grep '@device'" prints: the device sections in index
\* order; nothing when grep matches no line (exit code 1) or uci fails.
UciShowOutput(w, o) ==
    IF o = "ok"
    THEN [i \in 1..Cardinality(w.devices) |->
            DeviceLine(<<Str(SortedSeq(w.devices)[i])>>)]
    ELSE << >>

\* get_network_devices: the indices found in the listing, [0] if the listing raised.
NetworkManager_get_network_devices(w, o) ==
    get_network_devices(UciShowOutput(w, o), o)

\* Mutant: the physical interface is tried before the logical WAN interface.
set_wan_mac_alternative_eth0_first(dry_run, w, e) ==
    IF dry_run
    THEN [ret |-> "true", cmds |-> << >>, world |-> w]
    ELSE IF e[1] = "ok" /\ w.eth0
    THEN [ret |-> "true", cmds |-> <<LsNet, IpDown, IpAddress, IpUp>>,
          world |-> RunSeq(w, <<IpDown, IpAddress, IpUp>>, Shift(e, 1), 1).world]
    ELSE [ret |-> "true", cmds |-> <<LsNet, UciSet(WanKey)>>,
          world |-> Run(w, UciSet(WanKey), e[2])]

\* _set_wan_mac_alternative(mac, dry_run); e: the outcomes of its commands.
NetworkManager_set_wan_mac_alternative(dry_run, w, e) ==
    IF dry_run
    THEN [ret |-> "true", cmds |-> << >>, world |-> w]
    ELSE IF e[1] # "raise"
    THEN [ret |-> "true", cmds |-> <<UciSet(WanKey)>>,
          world |-> Run(w, UciSet(WanKey), e[1])]
    ELSE IF e[2] = "raise"
    THEN [ret |-> "false", cmds |-> <<UciSet(WanKey), LsNet>>, world |-> w]
    ELSE IF e[2] = "ok" /\ w.eth0
    THEN LET r == RunSeq(w, <<IpDown, IpAddress, IpUp>>, Shift(e, 2), 1)
         IN  [ret |-> BoolStr(~r.raised),
              cmds |-> <<UciSet(WanKey), LsNet>> \o r.cmds,
              world |-> r.world]
    ELSE [ret |-> "false", cmds |-> <<UciSet(WanKey), LsNet>>, world |-> w]

\* set_wan_mac_address(device_index, dry_run)
NetworkManager_set_wan_mac_address(idx, dry_run, w, e) ==
    LET get == UciGetDev(idx)
        set == UciSet(DevKey(idx))
        exists == e[1] = "ok" /\ idx \in w.devices
    IN  IF e[1] = "raise"
        THEN [ret |-> "false", cmds |-> <<get>>, world |-> w]
        ELSE IF ~exists /\ ~dry_run
        THEN LET a == NetworkManager_set_wan_mac_alternative(dry_run, w, Shift(e, 1))
             IN  [a EXCEPT !.cmds = <<get>> \o @]
        ELSE IF ~dry_run
        THEN IF e[2] = "raise"
             THEN [ret |-> "false", cmds |-> <<get, set>>, world |-> w]
             ELSE [ret |-> "true", cmds |-> <<get, set>>, world |-> Run(w, set, e[2])]
        ELSE [ret |-> "true", cmds |-> <<get>>, world |-> w]

\* set_macclone_address(dry_run)
NetworkManager_set_macclone_address(dry_run, w, e) ==
    IF dry_run
    THEN [ret |-> "true", cmds |-> << >>, world |-> w]
    ELSE LET r == RunSeq(w, <<UciSet(CloneKey)>>, e, 1)
         IN  [ret |-> BoolStr(~r.raised), cmds |-> r.cmds, world |-> r.world]

\* Mutant: commit_changes commits even in a dry run.
commit_changes_ignores_dry_run(dry_run, w, e) ==
    LET r == RunSeq(w, <<UciCommit("network"), UciCommit("glconfig")>>, e, 1)
    IN  [ret |-> BoolStr(~r.raised), cmds |-> r.cmds, world |-> r.world]

\* commit_changes(dry_run)
NetworkManager_commit_changes(dry_run, w, e) ==
    IF dry_run
    THEN [ret |-> "true", cmds |-> << >>, world |-> w]
    ELSE LET r == RunSeq(w, <<UciCommit("network"), UciCommit("glconfig")>>, e, 1)
         IN  [ret |-> BoolStr(~r.raised), cmds |-> r.cmds, world |-> r.world]

\* restart_network(dry_run)
NetworkManager_restart_network(dry_run, w, e) ==
    IF dry_run
    THEN [ret |-> "true", cmds |-> << >>, world |-> w]
    ELSE LET r == RunSeq(w, <<NetworkRestart>>, e, 1)
         IN  [ret |-> BoolStr(~r.raised), cmds |-> r.cmds, world |-> r.world]

----------------------------------------------------------------------------
(* BSSID (src/core/bssid.py), on Cmd.run_command.                          *)

DefaultWifiInterfaces == <<0, 1>>

\* run_uci_command(command, dry_run) with outcome o of the command.
run_uci_command(command, dry_run, w, o) ==
    IF dry_run
    THEN [ok |-> TRUE, cmds |-> << >>, world |-> w]
    ELSE [ok |-> o = "ok", cmds |-> <<command>>, world |-> Run(w, command, o)]

\* Mutant: every interface is listed as changed, whether or not its set succeeded.
RECURSIVE BssidSetLoopListsAll(_, _, _, _, _)
BssidSetLoopListsAll(interfaces, i, dry_run, w, e) ==
    IF i > Len(interfaces)
    THEN [success |-> TRUE, changes |-> << >>, cmds |-> << >>, world |-> w]
    ELSE LET c == run_uci_command(UciSet(WifiKey(interfaces[i])), dry_run, w, e[i])
             r == BssidSetLoopListsAll(interfaces, i + 1, dry_run, c.world, e)
         IN  [success |-> c.ok /\ r.success,
              changes |-> <<interfaces[i]>> \o r.changes,
              cmds |-> c.cmds \o r.cmds,
              world |-> r.world]

\* The loop of set_bssid_for_interfaces over interfaces[i..].
RECURSIVE BssidSetLoop(_, _, _, _, _)
BssidSetLoop(interfaces, i, dry_run, w, e) ==
    IF i > Len(interfaces)
    THEN [success |-> TRUE, changes |-> << >>, cmds |-> << >>, world |-> w]
    ELSE LET c == run_uci_command(UciSet(WifiKey(interfaces[i])), dry_run, w, e[i])
             r == BssidSetLoop(interfaces, i + 1, dry_run, c.world, e)
         IN  [success |-> c.ok /\ r.success,
              changes |-> (IF c.ok THEN <<interfaces[i]>> ELSE << >>) \o r.changes,
              cmds |-> c.cmds \o r.cmds,
              world |-> r.world]

\* Mutant: the commit is issued in every real call, whatever the sets returned.
set_bssid_commits_always(interfaces, dry_run, w, e) ==
    LET l == BssidSetLoop(interfaces, 1, dry_run, w, e) IN
    IF ~dry_run
    THEN LET c == run_uci_command(UciCommit("wireless"), dry_run, l.world,
                                  e[Len(interfaces) + 1])
         IN  [ret |-> BoolStr(l.success /\ c.ok), changes |-> l.changes,
              cmds |-> l.cmds \o c.cmds, world |-> c.world]
    ELSE [ret |-> BoolStr(l.success), changes |-> l.changes,
          cmds |-> l.cmds, world |-> l.world]

\* set_bssid_for_interfaces(interfaces, dry_run)
BSSID_set_bssid_for_interfaces(interfaces, dry_run, w, e) ==
    LET l == BssidSetLoop(interfaces, 1, dry_run, w, e) IN
    IF ~dry_run /\ l.success /\ l.changes # << >>
    THEN LET c == run_uci_command(UciCommit("wireless"), dry_run, l.world,
                                  e[Len(interfaces) + 1])
         IN  [ret |-> BoolStr(c.ok), changes |-> l.changes,
              cmds |-> l.cmds \o c.cmds, world |-> c.world]
    ELSE [ret |-> BoolStr(l.success), changes |-> l.changes,
          cmds |-> l.cmds, world |-> l.world]

\* reset_wifi(dry_run)
BSSID_reset_wifi(dry_run, w, e) ==
    LET c == run_uci_command(WifiReset, dry_run, w, e[1])
    IN  [ret |-> BoolStr(c.ok), cmds |-> c.cmds, world |-> c.world]

----------------------------------------------------------------------------
(* One call of a Network Configurator / BSSID operation.                   *)

NetOps == {"set_wan_mac_address", "set_macclone_address", "commit_changes",
           "restart_network", "set_bssid_for_interfaces", "reset_wifi"}

EnvNet == [1..EnvLen -> SystemCommandOutcomes]
EnvCmd == [1..EnvLen -> CmdOutcomes]

InitNet ==
    /\ pc = "call"
    /\ \E op \in NetOps, dry_run \in BOOLEAN, idx \in DevIndices,
          devs \in SUBSET (0..MaxDev), eth \in BOOLEAN,
          st \in SUBSET {DevKey(0), CloneKey, WifiKey(0)} :
          /\ world = [World0 EXCEPT !.devices = devs, !.eth0 = eth, !.staged = st]
          /\ args = [op |-> op, dry_run |-> dry_run, device_index |-> idx,
                     before |-> world]
    /\ ret = "none"
    /\ cmds = << >>
    /\ device = TRUE
    /\ elapsed = 0
    /\ attempt = 0
    /\ hist = NoHist
    /\ calls = << >>
    /\ success = TRUE

\* The call returns r.
Returns(r) ==
    /\ ret' = r.ret
    /\ cmds' = cmds \o r.cmds
    /\ world' = r.world
    /\ pc' = "done"
    /\ UNCHANGED <<calls, success, args, device, elapsed, attempt, hist>>

CallSetWanMac ==
    /\ pc = "call" /\ args.op = "set_wan_mac_address"
    /\ \E e \in EnvNet :
          Returns(NetworkManager_set_wan_mac_address(args.device_index, args.dry_run,
                                                     world, e))

CallSetMacclone ==
    /\ pc = "call" /\ args.op = "set_macclone_address"
    /\ \E e \in EnvNet : Returns(NetworkManager_set_macclone_address(args.dry_run, world, e))

CallCommitChanges ==
    /\ pc = "call" /\ args.op = "commit_changes"
    /\ \E e \in EnvNet : Returns(NetworkManager_commit_changes(args.dry_run, world, e))

CallRestartNetwork ==
    /\ pc = "call" /\ args.op = "restart_network"
    /\ \E e \in EnvNet : Returns(NetworkManager_restart_network(args.dry_run, world, e))

CallSetBssid ==
    /\ pc = "call" /\ args.op = "set_bssid_for_interfaces"
    /\ \E e \in EnvCmd :
          LET r == BSSID_set_bssid_for_interfaces(DefaultWifiInterfaces, args.dry_run,
                                                  world, e)
          IN  /\ ret' = r.ret
              /\ cmds' = cmds \o r.cmds
              /\ world' = r.world
              /\ calls' = <<[op |-> "set_bssid_for_interfaces", arg |-> "",
                             ret |-> r.ret, changes |-> r.changes]>>
              /\ pc' = "done"
              /\ UNCHANGED <<success, args, device, elapsed, attempt, hist>>

CallResetWifi ==
    /\ pc = "call" /\ args.op = "reset_wifi"
    /\ \E e \in EnvCmd : Returns(BSSID_reset_wifi(args.dry_run, world, e))

NextNet ==
    \/ CallSetWanMac
    \/ CallSetMacclone
    \/ CallCommitChanges
    \/ CallRestartNetwork
    \/ CallSetBssid
    \/ CallResetWifi

SpecNet == InitNet /\ [][NextNet]_vars

\* C2: every mutating Network Configurator / BSSID operation called with
\* dry_run=True issues no configuration-changing command, leaves the configuration
\* store and the interfaces as they were, and returns success.
C2_DryRunNetworkNoMutation ==
    (pc = "done" /\ args.op \in NetOps /\ args.dry_run) =>
        /\ ret = "true"
        /\ world = args.before
        /\ \A i \in 1..Len(cmds) : cmds[i] \notin MutatingCmds

C2_Witness ==
    /\ pc = "done" /\ args.dry_run
    /\ args.op = "set_wan_mac_address"
    /\ args.device_index \notin world.devices
    /\ cmds # << >>

C2_WitnessCommit ==
    /\ pc = "done" /\ args.dry_run
    /\ args.op = "commit_changes"
    /\ world.staged # {}

SetWanDone == pc = "done" /\ args.op = "set_wan_mac_address"

\* The keys of the network package that the call staged.
NewNetworkKeys == (world.staged \ args.before.staged) \cap PackageKeys("network")

C15_SuccessOnlyIfMacSet ==
    (SetWanDone /\ ~args.dry_run /\ args.device_index \notin args.before.devices
       /\ ret = "true") =>
        NewNetworkKeys # {} \/ world.linkmac

SetBssidDone == pc = "done" /\ args.op = "set_bssid_for_interfaces"

\* The interfaces of s whose BSSID key is set (staged or committed) in the world.
RECURSIVE WithKeySet(_)
WithKeySet(s) ==
    IF s = << >> THEN << >>
    ELSE (IF WifiKey(Head(s)) \in world.staged \cup world.committed
          THEN <<Head(s)>> ELSE << >>) \o WithKeySet(Tail(s))

\* C16 as stated: every real call of set_bssid_for_interfaces issues 'uci commit
\* wireless' exactly once, as its last command, after the set commands of all interfaces;
\* a dry-run call issues none.
C16_CommitExactlyOnce ==
    SetBssidDone =>
        IF args.dry_run
        THEN Count(cmds, UciCommit("wireless")) = 0
        ELSE /\ Count(cmds, UciCommit("wireless")) = 1
             /\ cmds[Len(cmds)] = UciCommit("wireless")
             /\ Len(cmds) = Len(DefaultWifiInterfaces) + 1

\* C16, amended: a real call issues the set commands of all interfaces first, in
\* interface order; it issues 'uci commit wireless' at most once, as its last
\* command, and it does so iff every set succeeded; a dry-run call issues no
\* command at all.
C16_CommitOnceIffAllSetsSucceeded ==
    SetBssidDone =>
        IF args.dry_run
        THEN cmds = << >>
        ELSE /\ Len(cmds) >= Len(DefaultWifiInterfaces)
             /\ \A i \in 1..Len(DefaultWifiInterfaces) :
                   cmds[i] = UciSet(WifiKey(DefaultWifiInterfaces[i]))
             /\ Count(cmds, UciCommit("wireless")) <= 1
             /\ Count(cmds, UciCommit("wireless")) = 1 <=>
                   calls[1].changes = DefaultWifiInterfaces
             /\ Count(cmds, UciCommit("wireless")) = 1 =>
                   cmds = <<UciSet(WifiKey(0)), UciSet(WifiKey(1)), UciCommit("wireless")>>

\* A real call has set both BSSIDs and committed them in one step.
C16_Witness ==
    /\ SetBssidDone /\ ~args.dry_run
    /\ Count(cmds, UciCommit("wireless")) = 1
    /\ \A i \in 0..1 : WifiKey(i) \in world.committed
    /\ ret = "true"

\* A real call one of whose sets failed has returned without a commit.
C16_WitnessNoCommit ==
    /\ SetBssidDone /\ ~args.dry_run
    /\ calls[1].changes = <<0>>
    /\ Count(cmds, UciCommit("wireless")) = 0
    /\ WifiKey(0) \in world.staged

\* C17: set_bssid_for_interfaces returns as changes the interfaces whose set
\* succeeded, in interface order (all of them in a dry run, where every set
\* reports success), and returns success iff every set succeeded and the commit,
\* when issued, succeeded.  Stated for calls that start with no BSSID key set, so
\* that a key that is set afterwards is one the call set.
C17_ChangesAreSucceededSets ==
    (SetBssidDone /\ WifiKey(0) \notin args.before.staged) =>
        /\ calls[1].changes = IF args.dry_run THEN DefaultWifiInterfaces
                              ELSE WithKeySet(DefaultWifiInterfaces)
        /\ ret = "true" <=>
              /\ calls[1].changes = DefaultWifiInterfaces
              /\ Count(cmds, UciCommit("wireless")) = 1 =>
                    \A i \in 0..1 : WifiKey(i) \in world.committed

\* A real call whose first set failed and whose second succeeded has returned.
C17_Witness ==
    /\ SetBssidDone /\ ~args.dry_run /\ WifiKey(0) \notin args.before.staged
    /\ calls[1].changes = <<1>>
    /\ ret = "false"

\* A real call whose sets succeeded and whose commit failed has returned.
C17_WitnessCommitFailed ==
    /\ SetBssidDone /\ ~args.dry_run /\ WifiKey(0) \notin args.before.staged
    /\ calls[1].changes = DefaultWifiInterfaces
    /\ Count(cmds, UciCommit("wireless")) = 1
    /\ ret = "false"

----------------------------------------------------------------------------
(* LogManager (bluecode/core/logs.py), on SystemCommand.                   *)

\* Most steps of one call that go wrong (a command exiting nonzero, a Python file
\* operation raising).
MaxFailures == 2

\* A step of a call that can go wrong is named by its kind and the file, directory
\* or service it is about; F is the set of those that do in the call at hand.
Pt(kind, p) == <<kind, p>>

\* Outcome of a shell command run through SystemCommand / of a Python file operation.
Sh(F, x) == IF x \in F THEN "fail" ELSE "ok"
IoOk(F, x) == x \notin F

At(kind) == Pt(kind, "")

DbPoints == {At(k) : k \in {"makedirs", "mkdtemp", "mount_tmp", "cp_backup", "umount_db",
                           "mount_db", "cp_restore", "umount_tmp", "rmdir"}}

FilePoints(p) == {Pt(k, p) : k \in {"read", "write", "shred", "overwrite", "rename"}}

\* The steps that can go wrong when wipe_mac_logs runs in world w.
FailurePoints(w) ==
    DbPoints
    \cup {Pt("shred", CLIENT_DB_FILE), Pt("overwrite", CLIENT_DB_FILE)}
    \cup UNION {FilePoints(p) : p \in {q \in Paths : w.fs[q] # "absent"}}
    \cup {Pt("listdir", d) : d \in Range(LOG_DIRS)}
    \cup {Pt("restart", sv) : sv \in Range(RELATED_SERVICES)}
    \cup {At("dmesg"), At("sync"), At("drop_caches"), At("ls_init")}

\* The subsets of P with at most k elements.
RECURSIVE FailureSets(_, _)
FailureSets(P, k) ==
    IF k = 0 THEN {{}}
    ELSE LET S == FailureSets(P, k - 1)
         IN  S \cup {G \cup {x} : G \in S, x \in P}

\* The steps of a call gathered so far: the world they left, the commands issued,
\* the sub-operations called, the running success flag, and whether an exception
\* has ended the steps (nothing runs once stop is set).
S0(w) == [world |-> w, cmds |-> << >>, calls |-> << >>, ok |-> TRUE, stop |-> FALSE]

\* One more command c with outcome o.
Then(s, c, o) ==
    IF s.stop THEN s
    ELSE [s EXCEPT !.world = Run(s.world, c, o), !.cmds = Append(s.cmds, c)]

\* One more Python file operation: it leaves world w2, or raises unless ok holds.
ThenIo(s, ok, w2) ==
    IF s.stop THEN s
    ELSE IF ok THEN [s EXCEPT !.world = w2]
    ELSE [s EXCEPT !.stop = TRUE]

\* One more sub-operation op(arg), which returned r; its result clears the success
\* flag only where the caller looks at it (counts).
Sub(s, op, arg, r, counts) ==
    [s EXCEPT !.world = r.world,
              !.cmds = @ \o r.cmds,
              !.calls = Append(@, [op |-> op, arg |-> arg, ret |-> r.ret]),
              !.ok = @ /\ (counts => r.ret = "true")]

\* Mutant: a file that cannot be overwritten counts as deleted.
secure_delete_file_hides_failure(filepath, w, F) ==
    IF FileExists(w, filepath) /\ Sh(F, Pt("shred", filepath)) = "ok"
    THEN [ret |-> "true", cmds |-> <<Shred(filepath)>>,
          world |-> Run(w, Shred(filepath), "ok")]
    ELSE IF ~FileExists(w, filepath) \/ ~IoOk(F, Pt("overwrite", filepath))
    THEN [ret |-> "true", cmds |-> <<Shred(filepath)>>, world |-> w]
    ELSE [ret |-> "true", cmds |-> <<Shred(filepath)>>,
          world |-> [Remove(w, filepath) EXCEPT !.shredded = @ \cup {filepath}]]

\* secure_delete_file(filepath) in world w.
secure_delete_file(filepath, w, F) ==
    IF FileExists(w, filepath) /\ Sh(F, Pt("shred", filepath)) = "ok"
    THEN [ret |-> "true", cmds |-> <<Shred(filepath)>>,
          world |-> Run(w, Shred(filepath), "ok")]
    ELSE IF ~FileExists(w, filepath)
    THEN [ret |-> "true", cmds |-> <<Shred(filepath)>>, world |-> w]
    ELSE IF ~IoOk(F, Pt("overwrite", filepath))
    THEN [ret |-> "false", cmds |-> <<Shred(filepath)>>, world |-> w]
    ELSE [ret |-> "true", cmds |-> <<Shred(filepath)>>,
          world |-> [Remove(w, filepath) EXCEPT !.shredded = @ \cup {filepath}]]

\* secure_client_database, lines 85-88: create /etc/oui-tertf if it is missing.
DbMakedirs(s, F) ==
    IF s.world.dbdir THEN s
    ELSE ThenIo(s, IoOk(F, At("makedirs")), [s.world EXCEPT !.dbdir = TRUE])

\* lines 91-95: the scratch directory and its tmpfs.
DbScratch(s, F) ==
    Then(ThenIo(s, IoOk(F, At("mkdtemp")), [s.world EXCEPT !.tmpdir = TRUE]),
         MountTmp, Sh(F, At("mount_tmp")))

\* line 103: shred the database; the result is not looked at.
DbShred(s, F) ==
    IF s.stop THEN s
    ELSE Sub(s, "secure_delete_file", CLIENT_DB_FILE,
             secure_delete_file(CLIENT_DB_FILE, s.world, F), FALSE)

\* lines 98-103: back the database up and shred it, if it exists.
DbBackup(s, F) ==
    IF ~s.stop /\ FileExists(s.world, CLIENT_DB_FILE)
    THEN DbShred(Then(s, CpBackup, Sh(F, At("cp_backup"))), F)
    ELSE s

\* lines 106-111: replace whatever is mounted on /etc/oui-tertf by a fresh tmpfs.
DbRemount(s, F) ==
    Then(Then(s, UmountDb, Sh(F, At("umount_db"))), MountDb, Sh(F, At("mount_db")))

\* lines 114-116: copy the backup into place, if there is one.
DbRestore(s, F) ==
    IF ~s.stop /\ s.world.backup # "none"
    THEN Then(s, CpRestore, Sh(F, At("cp_restore")))
    ELSE s

\* line 120, os.rmdir: the directory must be empty and no longer a mount point.
DbRmdir(s, F) ==
    ThenIo(s, /\ IoOk(F, At("rmdir"))
              /\ "tmp" \notin s.world.mounts
              /\ s.world.backup = "none",
           [s.world EXCEPT !.tmpdir = FALSE])

DbResult(s) == [ret |-> BoolStr(~s.stop), cmds |-> s.cmds, world |-> s.world]

\* secure_client_database(dry_run)
secure_client_database(dry_run, w, F) ==
    IF dry_run
    THEN [ret |-> "true", cmds |-> << >>, world |-> w]
    ELSE DbResult(
           DbRmdir(
             Then(DbRestore(DbRemount(DbBackup(DbScratch(DbMakedirs(S0(w), F), F),
                                               F), F), F),
                  UmountTmp, Sh(F, At("umount_tmp"))),
             F))

\* _clean_log_file, lines 251-257: secure-delete the original (del is what that
\* call returned, its result is not looked at), then rename the temporary file.
CleanReplace(log_file, del, F) ==
    IF ~IoOk(F, Pt("rename", log_file))
    THEN [ret |-> "false", cmds |-> del.cmds, world |-> del.world]
    ELSE [ret |-> "true", cmds |-> del.cmds,
          world |-> [del.world EXCEPT !.fs[log_file] = "clean",
                                      !.newfiles = @ \ {log_file}]]

\* _clean_log_file(log_file, dry_run)
clean_log_file(log_file, dry_run, w, F) ==
    IF dry_run \/ ~FileExists(w, log_file)
    THEN [ret |-> "true", cmds |-> << >>, world |-> w]
    ELSE IF ~IoOk(F, Pt("read", log_file))
    THEN [ret |-> "false", cmds |-> << >>, world |-> w]
    ELSE IF ~IoOk(F, Pt("write", log_file))
    THEN [ret |-> "false", cmds |-> << >>,
          world |-> [w EXCEPT !.newfiles = @ \cup {log_file}]]
    ELSE CleanReplace(log_file,
                      secure_delete_file(log_file,
                                         [w EXCEPT !.newfiles = @ \cup {log_file}], F),
                      F)

\* _is_log_file(filepath): by extension, else by a MAC address in its first lines.
is_log_file(filepath, w) == HasLogExtension(filepath) \/ w.fs[filepath] = "mac"

\* Mutant: the loop over LOG_FILES ends at the first file that fails.
RECURSIVE CleanKnownLogsStopsAtFailure(_, _, _, _)
CleanKnownLogsStopsAtFailure(i, dry_run, s, F) ==
    IF i > Len(LOG_FILES) \/ ~s.ok THEN s
    ELSE IF ~FileExists(s.world, LOG_FILES[i])
    THEN CleanKnownLogsStopsAtFailure(i + 1, dry_run, s, F)
    ELSE CleanKnownLogsStopsAtFailure(
             i + 1, dry_run,
             Sub(s, "_clean_log_file", LOG_FILES[i],
                 clean_log_file(LOG_FILES[i], dry_run, s.world, F), TRUE),
             F)

\* wipe_mac_logs, step 2: the loop over LOG_FILES[i..].
RECURSIVE CleanKnownLogs(_, _, _, _)
CleanKnownLogs(i, dry_run, s, F) ==
    IF i > Len(LOG_FILES) THEN s
    ELSE IF ~FileExists(s.world, LOG_FILES[i])
    THEN CleanKnownLogs(i + 1, dry_run, s, F)
    ELSE CleanKnownLogs(i + 1, dry_run,
                        Sub(s, "_clean_log_file", LOG_FILES[i],
                            clean_log_file(LOG_FILES[i], dry_run, s.world, F), TRUE),
                        F)

\* _find_and_clean_log_files: the files of directory d from position j on.
RECURSIVE CleanDirFiles(_, _, _, _, _)
CleanDirFiles(d, j, dry_run, s, F) ==
    IF j > Len(DirFiles(d)) THEN s
    ELSE IF FileExists(s.world, DirFiles(d)[j]) /\ is_log_file(DirFiles(d)[j], s.world)
    THEN CleanDirFiles(d, j + 1, dry_run,
                       Sub(s, "_clean_log_file", DirFiles(d)[j],
                           clean_log_file(DirFiles(d)[j], dry_run, s.world, F), FALSE),
                       F)
    ELSE CleanDirFiles(d, j + 1, dry_run, s, F)

\* _find_and_clean_log_files(dry_run): the directories LOG_DIRS[i..]; a listing
\* that raises skips its directory.
RECURSIVE find_and_clean_log_files(_, _, _, _)
find_and_clean_log_files(i, dry_run, s, F) ==
    IF i > Len(LOG_DIRS) THEN s
    ELSE IF ~IoOk(F, Pt("listdir", LOG_DIRS[i]))
    THEN find_and_clean_log_files(i + 1, dry_run, s, F)
    ELSE find_and_clean_log_files(i + 1, dry_run,
                                  CleanDirFiles(LOG_DIRS[i], 1, dry_run, s, F), F)

\* Mutant: the kernel ring buffer is cleared in a dry run too.
clean_dmesg_ignores_dry_run(dry_run, w, F) ==
    [ret |-> "true", cmds |-> <<DmesgClear>>,
     world |-> Run(w, DmesgClear, Sh(F, At("dmesg")))]

\* _clean_dmesg(dry_run)
clean_dmesg(dry_run, w, F) ==
    IF dry_run
    THEN [ret |-> "true", cmds |-> << >>, world |-> w]
    ELSE [ret |-> "true", cmds |-> <<DmesgClear>>,
          world |-> Run(w, DmesgClear, Sh(F, At("dmesg")))]

\* _restart_related_services(): the services RELATED_SERVICES[i..].
RECURSIVE RestartServices(_, _, _)
RestartServices(i, s, F) ==
    IF i > Len(RELATED_SERVICES) THEN s
    ELSE RestartServices(i + 1,
                         Then(s, ServiceRestart(RELATED_SERVICES[i]),
                              Sh(F, Pt("restart", RELATED_SERVICES[i]))),
                         F)

restart_related_services(w, F) == DbResult(RestartServices(1, S0(w), F))

\* check_init_script()
check_init_script(w, F) ==
    IF w.initscript = "missing"
    THEN [ret |-> "false", cmds |-> << >>, world |-> w]
    ELSE [ret |-> BoolStr(w.initscript = "enabled" /\ Sh(F, At("ls_init")) = "ok"),
          cmds |-> <<LsInit>>, world |-> w]

\* wipe_mac_logs, step 1.
WipeDb(dry_run, s, F) ==
    Sub(s, "secure_client_database", "",
        secure_client_database(dry_run, s.world, F), TRUE)

\* wipe_mac_logs, step 4; the result is not looked at.
WipeDmesg(dry_run, s, F) ==
    Sub(s, "_clean_dmesg", "", clean_dmesg(dry_run, s.world, F), FALSE)

\* wipe_mac_logs, steps 1-4.
WipeScrub(dry_run, s, F) ==
    WipeDmesg(dry_run,
              find_and_clean_log_files(
                  1, dry_run,
                  CleanKnownLogs(1, dry_run, WipeDb(dry_run, s, F), F),
                  F),
              F)

\* wipe_mac_logs, steps 5-7, skipped in a dry run.
WipeServices(s, F) ==
    Sub(s, "_restart_related_services", "", restart_related_services(s.world, F), FALSE)

\* Mutant: the result of the boot-persistence check clears the success flag.
WipeCheckCounts(s, F) ==
    Sub(s, "check_init_script", "", check_init_script(s.world, F), TRUE)

WipeCheck(s, F) ==
    Sub(s, "check_init_script", "", check_init_script(s.world, F), FALSE)

\* Mutant: steps 5-7 are skipped once an earlier step has failed.
WipeFinishStopsOnFailure(dry_run, s, F) ==
    IF dry_run \/ ~s.ok THEN s
    ELSE WipeCheck(WipeServices(Then(Then(s, Sync, Sh(F, At("sync"))),
                                     DropCaches, Sh(F, At("drop_caches"))), F), F)

WipeFinish(dry_run, s, F) ==
    IF dry_run THEN s
    ELSE WipeCheck(WipeServices(Then(Then(s, Sync, Sh(F, At("sync"))),
                                     DropCaches, Sh(F, At("drop_caches"))), F), F)

WipeResult(s) ==
    [ret |-> BoolStr(s.ok), cmds |-> s.cmds, calls |-> s.calls, world |-> s.world]

\* wipe_mac_logs(dry_run) in world w, with F the steps that go wrong.
wipe_mac_logs(dry_run, w, F) ==
    WipeResult(WipeFinish(dry_run, WipeScrub(dry_run, S0(w), F), F))

----------------------------------------------------------------------------
(* One call of wipe_mac_logs.                                              *)

\* The log files the call may find: one of the fixed list without a log extension
\* in a log directory (with or without MAC addresses in it), one of the fixed list
\* outside the log directories, and at most one file that is not on the list.
LogFileSystems ==
    { [p \in Paths |-> IF p = "/var/log/messages" THEN m
                       ELSE IF p = "/tmp/dhcp.leases" THEN l
                       ELSE IF p = o THEN "mac"
                       ELSE "absent"] :
        m \in {"absent", "mac", "clean"}, l \in {"absent", "mac"},
        o \in {"none"} \cup Range(OtherFiles) }

\* The client database: no directory, an empty directory, a database on disk, a
\* database already in a tmpfs.
DbStates ==
    {[dir |-> FALSE, disk |-> FALSE, mounts |-> {}, ram |-> FALSE],
     [dir |-> TRUE, disk |-> FALSE, mounts |-> {}, ram |-> FALSE],
     [dir |-> TRUE, disk |-> TRUE, mounts |-> {}, ram |-> FALSE],
     [dir |-> TRUE, disk |-> FALSE, mounts |-> {"db"}, ram |-> TRUE]}

LogWorld(fs, db, is) ==
    [World0 EXCEPT !.fs = fs, !.dbdir = db.dir, !.dbdisk = db.disk,
                   !.mounts = db.mounts, !.dbram = db.ram, !.initscript = is]

\* Every file system with every database state, the boot script enabled; and one
\* of them with the boot script missing or disabled.
LogWorlds ==
    {LogWorld(fs, db, "enabled") : fs \in LogFileSystems, db \in DbStates}
    \cup {LogWorld([World0.fs EXCEPT !["/var/log/messages"] = "mac"],
                   [dir |-> TRUE, disk |-> TRUE, mounts |-> {}, ram |-> FALSE], is) :
            is \in {"missing", "disabled"}}

\* The files _clean_log_file and secure_delete_file are called on directly.
CleanedPaths == {"/var/log/messages", "/tmp/log/hostapd"}
DeletedPaths == {"/var/log/messages", CLIENT_DB_FILE}

InitLogs ==
    /\ pc = "call"
    /\ world \in LogWorlds
    /\ \/ \E dry_run \in BOOLEAN, op \in {"wipe_mac_logs", "secure_client_database"} :
             args = [op |-> op, dry_run |-> dry_run, before |-> world]
       \/ \E dry_run \in BOOLEAN, path \in CleanedPaths :
             args = [op |-> "_clean_log_file", dry_run |-> dry_run, before |-> world,
                     path |-> path]
       \/ \E path \in DeletedPaths :
             args = [op |-> "secure_delete_file", dry_run |-> FALSE, before |-> world,
                     path |-> path]
    /\ ret = "none"
    /\ cmds = << >>
    /\ device = TRUE
    /\ elapsed = 0
    /\ attempt = 0
    /\ hist = NoHist
    /\ calls = << >>
    /\ success = TRUE

\* The call returns r, having made the sub-calls r.calls.
ReturnsCalls(r) ==
    /\ ret' = r.ret
    /\ cmds' = cmds \o r.cmds
    /\ calls' = calls \o r.calls
    /\ world' = r.world
    /\ pc' = "done"
    /\ UNCHANGED <<success, args, device, elapsed, attempt, hist>>

CallWipeMacLogs ==
    /\ pc = "call" /\ args.op = "wipe_mac_logs"
    /\ \E F \in FailureSets(FailurePoints(world), MaxFailures) :
          ReturnsCalls(wipe_mac_logs(args.dry_run, world, F))

\* The steps that can go wrong when secure_client_database runs.
DbFailurePoints ==
    DbPoints \cup {Pt("shred", CLIENT_DB_FILE), Pt("overwrite", CLIENT_DB_FILE)}

CallSecureClientDatabase ==
    /\ pc = "call" /\ args.op = "secure_client_database"
    /\ \E F \in FailureSets(DbFailurePoints, MaxFailures) :
          Returns(secure_client_database(args.dry_run, world, F))

\* The steps that can go wrong when a file operation runs on path p.
PathFailurePoints(p) ==
    {Pt(k, p) : k \in {"read", "write", "shred", "overwrite", "rename"}}

CallCleanLogFile ==
    /\ pc = "call" /\ args.op = "_clean_log_file"
    /\ \E F \in FailureSets(PathFailurePoints(args.path), MaxFailures) :
          Returns(clean_log_file(args.path, args.dry_run, world, F))

CallSecureDeleteFile ==
    /\ pc = "call" /\ args.op = "secure_delete_file"
    /\ \E F \in FailureSets(PathFailurePoints(args.path), MaxFailures) :
          Returns(secure_delete_file(args.path, world, F))

\* secure_delete_file is called once more on the same path; the first result is
\* kept in calls.
CallSecureDeleteFileAgain ==
    /\ pc = "done" /\ args.op = "secure_delete_file"
    /\ \E F \in FailureSets(PathFailurePoints(args.path), MaxFailures) :
          LET r == secure_delete_file(args.path, world, F)
          IN  /\ ret' = r.ret
              /\ cmds' = cmds \o r.cmds
              /\ world' = r.world
              /\ calls' = Append(calls, [op |-> "secure_delete_file", arg |-> args.path,
                                         ret |-> ret, world |-> world])
              /\ pc' = "again"
              /\ UNCHANGED <<success, args, device, elapsed, attempt, hist>>

NextLogs ==
    \/ CallWipeMacLogs
    \/ CallSecureClientDatabase
    \/ CallCleanLogFile
    \/ CallSecureDeleteFile
    \/ CallSecureDeleteFileAgain

SpecLogs == InitLogs /\ [][NextLogs]_vars

\* C3: wipe_mac_logs called with dry_run=True modifies, creates or deletes no file,
\* mounts nothing, issues no shell command at all and returns success, whatever log
\* files exist.
C3_DryRunWipeNoIO ==
    (pc = "done" /\ args.op = "wipe_mac_logs" /\ args.dry_run) =>
        /\ ret = "true"
        /\ cmds = << >>
        /\ world = args.before

\* A dry-run wipe has returned in a world with a client database on disk, a
\* known log and a discovered log that hold MAC addresses.
C3_Witness ==
    /\ pc = "done" /\ args.op = "wipe_mac_logs" /\ args.dry_run
    /\ world.dbdisk
    /\ world.fs["/var/log/messages"] = "mac"
    /\ world.fs["/tmp/log/hostapd"] = "mac"
    /\ \E i \in 1..Len(calls) :
          calls[i] = [op |-> "_clean_log_file", arg |-> "/tmp/log/hostapd",
                      ret |-> "true"]

WipeDone == pc = "done" /\ args.op = "wipe_mac_logs"

\* The files of the fixed list that exist in world w, in the order of the list.
KnownLogs(w) == SelectSeq(LOG_FILES, LAMBDA p : w.fs[p] # "absent")

\* The files that lie in one of the log directories.
DiscoverableLogs == UNION {Range(DirFiles(LOG_DIRS[i])) : i \in 1..Len(LOG_DIRS)}

\* The commands of steps 4-7 of a real wipe, in the order the code issues them.
WipeTail(w) ==
    <<DmesgClear, Sync, DropCaches>>
    \o [i \in 1..Len(RELATED_SERVICES) |-> ServiceRestart(RELATED_SERVICES[i])]
    \o (IF w.initscript = "missing" THEN << >> ELSE <<LsInit>>)

\* C18: a real wipe_mac_logs calls secure_client_database first, then
\* _clean_log_file for every existing file of the fixed list in list order, then
\* _clean_log_file for files found in the log directories, then _clean_dmesg,
\* then runs sync, drops the page cache, restarts every related service and
\* checks the boot script last; it does all of that whatever the earlier steps
\* returned.
C18_StepsInFixedOrder ==
    (WipeDone /\ ~args.dry_run) =>
        LET n == Len(calls)
            k == Len(KnownLogs(args.before))
            t == WipeTail(args.before)
        IN  /\ n >= k + 4
            /\ calls[1].op = "secure_client_database"
            /\ \A i \in 1..k :
                  /\ calls[1 + i].op = "_clean_log_file"
                  /\ calls[1 + i].arg = KnownLogs(args.before)[i]
            /\ \A i \in (k + 2)..(n - 3) :
                  /\ calls[i].op = "_clean_log_file"
                  /\ calls[i].arg \in DiscoverableLogs
            /\ calls[n - 2].op = "_clean_dmesg"
            /\ calls[n - 1].op = "_restart_related_services"
            /\ calls[n].op = "check_init_script"
            /\ Len(cmds) >= Len(t)
            /\ SubSeq(cmds, Len(cmds) - Len(t) + 1, Len(cmds)) = t
            /\ \A c \in Range(t) : Count(cmds, c) = 1

\* A real wipe whose database step and whose scrub of a known log both failed has
\* gone on to scrub a discovered file, restart the services and check the boot
\* script.
C18_Witness ==
    /\ WipeDone /\ ~args.dry_run
    /\ calls[1].ret = "false"
    /\ calls[2] = [op |-> "_clean_log_file", arg |-> "/var/log/messages", ret |-> "false"]
    /\ \E i \in 3..Len(calls) : calls[i].op = "_clean_log_file"
                               /\ calls[i].arg = "/tmp/log/hostapd"
    /\ calls[Len(calls)].op = "check_init_script"
    /\ "sync" \in world.flushed
    /\ "gl-tertf" \in world.restarted

\* C19: wipe_mac_logs returns true iff secure_client_database returned true and
\* _clean_log_file returned true for every existing file of the fixed list; and
\* then each of those files is clean.
C19_ResultIsDbAndKnownLogs ==
    WipeDone =>
        LET k == Len(KnownLogs(args.before))
        IN  /\ ret = "true" <=> \A i \in 1..(k + 1) : calls[i].ret = "true"
            /\ (ret = "true" /\ ~args.dry_run) =>
                  \A p \in Range(KnownLogs(args.before)) : world.fs[p] = "clean"

\* A real wipe of a known log has returned true although the boot script is not
\* installed and its check returned false.
C19_Witness ==
    /\ WipeDone /\ ~args.dry_run /\ ret = "true"
    /\ args.before.fs["/var/log/messages"] = "mac"
    /\ args.before.initscript = "missing"
    /\ calls[Len(calls)].ret = "false"

\* A real wipe has returned true although the scrub of a discovered file failed
\* and a service did not restart.
C19_WitnessDiscovery ==
    /\ WipeDone /\ ~args.dry_run /\ ret = "true"
    /\ Len(KnownLogs(args.before)) >= 1
    /\ \E i \in 3..Len(calls) : calls[i].op = "_clean_log_file" /\ calls[i].ret = "false"
                               /\ calls[i].arg \in Range(OtherFiles)
    /\ "gl-tertf" \notin world.restarted

\* C34: in the known-log scrub of wipe_mac_logs a file that fails to sanitize
\* does not stop the pass: _clean_log_file is still called for every other
\* existing file of the fixed list, those that succeed are clean afterwards, the
\* failure is reported for the file it happened on, and the wipe returns false.
C34_ScrubContinuesAfterFailure ==
    WipeDone =>
        LET known == KnownLogs(args.before)
            failed == {i \in 1..Len(known) : calls[1 + i].ret = "false"}
        IN  /\ Len(calls) >= 1 + Len(known)
            /\ \A i \in 1..Len(known) :
                  /\ calls[1 + i].op = "_clean_log_file"
                  /\ calls[1 + i].arg = known[i]
                  /\ (i \notin failed /\ ~args.dry_run) => world.fs[known[i]] = "clean"
            /\ failed # {} => ret = "false"
            /\ args.dry_run => failed = {}

\* The first of two known logs failed; the second was scrubbed all the same.
C34_Witness ==
    /\ WipeDone /\ ~args.dry_run /\ ret = "false"
    /\ KnownLogs(args.before) = <<"/var/log/messages", "/tmp/dhcp.leases">>
    /\ calls[1].ret = "true"
    /\ calls[2] = [op |-> "_clean_log_file", arg |-> "/var/log/messages", ret |-> "false"]
    /\ calls[3] = [op |-> "_clean_log_file", arg |-> "/tmp/dhcp.leases", ret |-> "true"]
    /\ args.before.fs["/tmp/dhcp.leases"] = "mac"
    /\ world.fs["/tmp/dhcp.leases"] = "clean"

SecureDbDone == pc = "done" /\ args.op = "secure_client_database"

\* C20: whenever a real secure_client_database returns true, /etc/oui-tertf is a
\* tmpfs mount and no client.db lies on persistent storage, neither in the
\* directory under the mount nor in the scratch directory.
C20_SuccessMeansRamOnly ==
    (SecureDbDone /\ ~args.dry_run /\ ret = "true") =>
        /\ "db" \in world.mounts
        /\ ~world.dbdisk
        /\ world.backup # "disk"

\* A real secure_client_database has relocated a database that was on disk.
C20_WitnessRelocated ==
    /\ SecureDbDone /\ ~args.dry_run /\ ret = "true"
    /\ args.before.dbdisk
    /\ "db" \in world.mounts /\ world.dbram /\ ~world.dbdisk

\* A real secure_client_database has returned true with the database copied back
\* onto the disk: the tmpfs mount of /etc/oui-tertf had failed.
C20_RestoredToDisk ==
    /\ SecureDbDone /\ ~args.dry_run /\ ret = "true"
    /\ args.before.dbdisk
    /\ "db" \notin world.mounts /\ world.dbdisk
    /\ cmds = <<MountTmp, CpBackup, Shred(CLIENT_DB_FILE), UmountDb, MountDb,
               CpRestore, UmountTmp>>

CleanLogFileDone == pc = "done" /\ args.op = "_clean_log_file"

\* C21: after a real _clean_log_file has returned true for a file that existed,
\* the path holds the sanitized content, the original was secure-deleted (by shred
\* or by the overwrite fallback) and no '.new' file is left.
C21_CleanedAfterSecureDelete ==
    (CleanLogFileDone /\ ~args.dry_run /\ FileExists(args.before, args.path)
        /\ ret = "true") =>
        /\ world.fs[args.path] = "clean"
        /\ args.path \in world.shredded
        /\ args.path \notin world.newfiles

\* A real _clean_log_file has returned true although neither shred nor the
\* overwrite fallback deleted the original: the rename replaced it as it was.
C21_RenamedOverUndeleted ==
    /\ CleanLogFileDone /\ ~args.dry_run /\ ret = "true"
    /\ args.before.fs[args.path] = "mac"
    /\ world.fs[args.path] = "clean"
    /\ args.path \notin world.shredded
    /\ cmds = <<Shred(args.path)>>

\* C35: on every exit path of secure_client_database and _clean_log_file, the
\* failing ones included, the scratch tmpfs is unmounted, the temporary directory
\* is removed and no ".new" replacement file is left behind.
C35_CleanupOnEveryExit ==
    /\ (SecureDbDone /\ ~args.dry_run) =>
          ("tmp" \notin world.mounts /\ ~world.tmpdir)
    /\ CleanLogFileDone => world.newfiles = {}

\* The scratch tmpfs could not be unmounted: rmdir raised, the call returned
\* false, and the mount and its directory are still there.
C35_ScratchLeftMounted ==
    /\ SecureDbDone /\ ~args.dry_run /\ ret = "false"
    /\ "tmp" \in world.mounts /\ world.tmpdir

\* Writing the replacement failed: the call returned false and the ".new" file
\* lies next to the untouched log.
C35_NewFileLeft ==
    /\ CleanLogFileDone /\ ~args.dry_run /\ ret = "false"
    /\ args.path \in world.newfiles
    /\ world.fs[args.path] = args.before.fs[args.path]

\* What the code does: a call that returns true has cleaned up after itself.
C35_CleanupOnSuccess ==
    /\ (SecureDbDone /\ ~args.dry_run /\ ret = "true") =>
          ("tmp" \notin world.mounts /\ ~world.tmpdir)
    /\ (CleanLogFileDone /\ ret = "true") => world.newfiles = {}

\* C23: secure_delete_file on a path that does not exist returns true and leaves
\* the file system as it was; whenever it returns true the file is gone; and a
\* second call on the path then returns true too, the file still gone.
C23_SecureDeleteIdempotent ==
    (args.op = "secure_delete_file" /\ pc \in {"done", "again"}) =>
        /\ (pc = "done" /\ ~FileExists(args.before, args.path)) =>
              ret = "true" /\ world = args.before
        /\ (pc = "done" /\ ret = "true") => ~FileExists(world, args.path)
        /\ (pc = "again" /\ calls[1].ret = "true") =>
              /\ ret = "true"
              /\ ~FileExists(world, args.path)
              /\ world = calls[1].world

\* secure_delete_file has deleted an existing file, and the second call on the
\* path has returned true.
C23_Witness ==
    /\ args.op = "secure_delete_file" /\ pc = "again"
    /\ FileExists(args.before, args.path)
    /\ calls[1].ret = "true"
    /\ ret = "true"
    /\ args.path \in world.shredded

\* secure_delete_file has returned true for a path that did not exist.
C23_WitnessMissing ==
    /\ args.op = "secure_delete_file" /\ pc = "done"
    /\ ~FileExists(args.before, args.path)
    /\ ret = "true"

----------------------------------------------------------------------------
(* MacManager (bluecode/core/mac.py).                                      *)

\* --device-index not given (device_index is None).
NoIndex == -1

UciGetMacCmd == [i \in DevIndices |-> "uci get network.@device[" \o Str(i) \o "].macaddr"]
UciGetMac(i) == UciGetMacCmd[i]
UciGetClone == "uci get glconfig.general.macclone_addr"
CatAddress == <<"cat /sys/class/net/eth0/address", "cat /sys/class/net/eth1/address",
                "cat /sys/class/net/wlan0/address", "cat /sys/class/net/wlan1/address">>

\* Outcomes of the commands of one randomize_mac_addresses call: the device
\* listing, the device lookup and the set of set_wan_mac_address (or the direct
\* set of network.wan.macaddr), the MAC-clone set, the two commits, the restart.
MacEnv == [list : SystemCommandOutcomes, get : SystemCommandOutcomes,
           set : SystemCommandOutcomes, clone : SystemCommandOutcomes,
           commit_network : SystemCommandOutcomes,
           commit_glconfig : SystemCommandOutcomes,
           restart : SystemCommandOutcomes]

\* The outcomes a call works with, one sequence per device index: the lookup,
\* the set (of the device entry or, on the alternative path, of
\* network.wan.macaddr), the interface listing and the three ip commands.
\* PerDevice(e) gives every device the outcomes of e.
PerDevice(e) ==
    [list |-> e.list,
     dev |-> [i \in DevIndices |-> <<e.get, e.set, "ok", "ok", "ok", "ok">>],
     direct |-> e.set, clone |-> e.clone,
     commit_network |-> e.commit_network, commit_glconfig |-> e.commit_glconfig,
     restart |-> e.restart]

\* get_current_mac_addresses(): read-only lookups, every failure swallowed.
NetworkManager_get_current_mac_addresses(w, o) ==
    [ret |-> "dict",
     cmds |-> <<UciShowDevices>>
              \o [i \in 1..Len(NetworkManager_get_network_devices(w, o)) |->
                    UciGetMac(NetworkManager_get_network_devices(w, o)[i])]
              \o <<UciGetClone>> \o CatAddress,
     world |-> w]

\* The steps of one randomize_mac_addresses call gathered so far; changes_made is
\* the local of that name.
M0(w) == [world |-> w, cmds |-> << >>, calls |-> << >>, ok |-> TRUE, stop |-> FALSE,
          changes_made |-> FALSE]

\* A sub-operation returned r; sets says whether its result feeds changes_made.
MacSub(s, op, arg, r, sets) ==
    [Sub(s, op, arg, r, FALSE) EXCEPT
        !.changes_made = @ \/ (sets /\ r.ret = "true")]

\* _randomize_wan_interface, lines 107-116: the direct set of network.wan.macaddr.
WanDirect(dry_run, w, e) ==
    IF dry_run
    THEN [ret |-> "true", cmds |-> << >>, world |-> w]
    ELSE IF e.direct = "raise"
    THEN [ret |-> "false", cmds |-> <<UciSet(WanKey)>>, world |-> w]
    ELSE [ret |-> "true", cmds |-> <<UciSet(WanKey)>>,
          world |-> Run(w, UciSet(WanKey), e.direct)]

\* _randomize_wan_interface, lines 103-105: the loop over devs[i..]; s.stop is set
\* once a device reported success.
RECURSIVE WanLoop(_, _, _, _, _)

\* Mutant: the loop goes on after a device reported success.
WanTriedEveryDevice(devs, i, dry_run, s, e) ==
    IF i >= Len(devs) THEN [s EXCEPT !.stop = s.changes_made]
    ELSE WanLoop(devs, i + 1, dry_run, s, e)

WanTried(devs, i, dry_run, s, e) ==
    IF s.changes_made THEN [s EXCEPT !.stop = TRUE]
    ELSE WanLoop(devs, i + 1, dry_run, s, e)

WanLoop(devs, i, dry_run, s, e) ==
    IF i > Len(devs) THEN s
    ELSE WanTried(devs, i, dry_run,
                  MacSub(s, "set_wan_mac_address", Str(devs[i]),
                         NetworkManager_set_wan_mac_address(devs[i], dry_run, s.world,
                                                            e.dev[devs[i]]),
                         TRUE),
                  e)

WanAfterLoop(dry_run, s, e) ==
    IF s.stop THEN [s EXCEPT !.stop = FALSE]
    ELSE MacSub(s, "direct", "", WanDirect(dry_run, s.world, e), TRUE)

\* _randomize_wan_interface(device_index, dry_run)
randomize_wan_interface(device_index, dry_run, s, e) ==
    IF device_index # NoIndex
    THEN MacSub(s, "set_wan_mac_address", Str(device_index),
                NetworkManager_set_wan_mac_address(device_index, dry_run, s.world,
                                                   e.dev[device_index]),
                TRUE)
    ELSE WanAfterLoop(dry_run,
                      WanLoop(NetworkManager_get_network_devices(s.world, e.list), 1,
                              dry_run,
                              [s EXCEPT !.cmds = Append(@, UciShowDevices)], e),
                      e)

\* randomize_mac_addresses, lines 45-49 and 76-80: the snapshot that is logged.
MacSnapshot(s, e) ==
    MacSub(s, "get_current_mac_addresses", "",
           NetworkManager_get_current_mac_addresses(s.world, e.list), FALSE)

\* lines 58-60
MacWan(interfaces, device_index, dry_run, s, e) ==
    IF "wan" \in interfaces THEN randomize_wan_interface(device_index, dry_run, s, e)
    ELSE s

\* lines 62-64
MacUpstream(interfaces, dry_run, s, e) ==
    IF "upstream" \in interfaces
    THEN MacSub(s, "set_macclone_address", "",
                NetworkManager_set_macclone_address(dry_run, s.world, <<e.clone>>), TRUE)
    ELSE s

\* lines 72-80: restart and log the new addresses.
MacRestart(dry_run, no_restart, s, e) ==
    IF s.ok /\ ~no_restart /\ ~dry_run
    THEN MacSnapshot(MacSub(s, "restart_network", "",
                            NetworkManager_restart_network(dry_run, s.world,
                                                           <<e.restart>>), FALSE), e)
    ELSE s

\* lines 67-70: a commit that reports failure ends the call with False.
MacCommitted(s, r) == [MacSub(s, "commit_changes", "", r, FALSE) EXCEPT
                          !.ok = r.ret = "true"]

\* Mutant: the commit does not depend on changes_made.
MacApplyCommitsAlways(dry_run, no_restart, s, e) ==
    LET r == IF dry_run THEN [raised |-> FALSE, cmds |-> << >>, world |-> s.world]
             ELSE RunSeq(s.world, <<UciCommit("network"), UciCommit("glconfig")>>,
                         <<e.commit_network, e.commit_glconfig>>, 1)
        c == [s EXCEPT !.world = r.world, !.cmds = @ \o r.cmds,
                       !.calls = Append(@, [op |-> "commit_changes", arg |-> "",
                                            ret |-> BoolStr(~r.raised)]),
                       !.ok = ~r.raised]
    IN  IF c.ok /\ ~no_restart /\ ~dry_run
        THEN [c EXCEPT !.cmds = Append(@, NetworkRestart),
                       !.calls = Append(@, [op |-> "restart_network", arg |-> "",
                                            ret |-> BoolStr(e.restart # "raise")])]
        ELSE c

\* lines 66-82
MacApply(dry_run, no_restart, s, e) ==
    IF s.changes_made
    THEN MacRestart(dry_run, no_restart,
                    MacCommitted(s, NetworkManager_commit_changes(
                                        dry_run, s.world,
                                        <<e.commit_network, e.commit_glconfig>>)),
                    e)
    ELSE s

MacResult(s) ==
    [ret |-> BoolStr(s.ok), cmds |-> s.cmds, calls |-> s.calls, world |-> s.world]

\* randomize_mac_addresses(interfaces, device_index, dry_run, no_restart)
randomize_mac_addresses(interfaces, device_index, dry_run, no_restart, w, e) ==
    MacResult(MacApply(dry_run, no_restart,
                       MacUpstream(interfaces, dry_run,
                                   MacWan(interfaces, device_index, dry_run,
                                          MacSnapshot(M0(w), e), e),
                                   e),
                       e))

----------------------------------------------------------------------------
(* One call of randomize_mac_addresses.  MacManager is handed its executor  *)
(* (mac.py:12-21): SystemCommand reports an exit code, the CommandExecutor  *)
(* of src/core/net.py raises on a nonzero one (check=True).                 *)

ExecutorOutcomes == {"ok", "fail", "raise"}

\* Most commands of one call that do not end "ok".
MaxMacFaults == 2

GetSlot == [i \in DevIndices |-> "get" \o Str(i)]
SetSlot == [i \in DevIndices |-> "set" \o Str(i)]

\* The commands of a call whose outcome is drawn.
MacSlots ==
    {"list", "ls", "ip", "direct", "clone", "commit_network", "commit_glconfig",
     "restart"}
    \cup {GetSlot[i] : i \in DevIndices} \cup {SetSlot[i] : i \in DevIndices}

\* Which commands go wrong, and how.
MacFaults ==
    UNION {[S -> {"fail", "raise"}] : S \in FailureSets(MacSlots, MaxMacFaults)}

Outcome(F, x) == IF x \in DOMAIN F THEN F[x] ELSE "ok"

MacCallEnv(F) ==
    [list |-> Outcome(F, "list"),
     dev |-> [i \in DevIndices |->
                <<Outcome(F, GetSlot[i]), Outcome(F, SetSlot[i]), Outcome(F, "ls"),
                  Outcome(F, "ip"), Outcome(F, "ip"), Outcome(F, "ip")>>],
     direct |-> Outcome(F, "direct"), clone |-> Outcome(F, "clone"),
     commit_network |-> Outcome(F, "commit_network"),
     commit_glconfig |-> Outcome(F, "commit_glconfig"),
     restart |-> Outcome(F, "restart")]

InitMac ==
    /\ pc = "call"
    /\ \E ifs \in {{"wan"}, {"upstream"}, {"wan", "upstream"}},
          idx \in {NoIndex, 0, MaxDev + 1}, dry_run \in BOOLEAN,
          no_restart \in BOOLEAN, devs \in SUBSET (0..MaxDev), eth \in BOOLEAN :
          /\ world = [World0 EXCEPT !.devices = devs, !.eth0 = eth]
          /\ args = [op |-> "randomize_mac_addresses", interfaces |-> ifs,
                     device_index |-> idx, dry_run |-> dry_run,
                     no_restart |-> no_restart, before |-> world]
    /\ ret = "none"
    /\ cmds = << >>
    /\ device = TRUE
    /\ elapsed = 0
    /\ attempt = 0
    /\ hist = NoHist
    /\ calls = << >>
    /\ success = TRUE

CallRandomizeMacAddresses ==
    /\ pc = "call" /\ args.op = "randomize_mac_addresses"
    /\ \E F \in MacFaults :
          ReturnsCalls(randomize_mac_addresses(args.interfaces, args.device_index,
                                               args.dry_run, args.no_restart,
                                               world, MacCallEnv(F)))

NextMac == CallRandomizeMacAddresses

SpecMac == InitMac /\ [][NextMac]_vars

RandomizeMacDone == pc = "done" /\ args.op = "randomize_mac_addresses"

\* Positions in calls of the sub-operations named in ops, positions in cmds of
\* the commands in C.
CallsOf(ops) == {i \in 1..Len(calls) : calls[i].op \in ops}
CmdsIn(C) == {k \in 1..Len(cmds) : cmds[k] \in C}

SetOps == {"set_wan_mac_address", "direct", "set_macclone_address"}

SomeSetSucceeded == \E i \in CallsOf(SetOps) : calls[i].ret = "true"

CommitSucceeded == \E i \in CallsOf({"commit_changes"}) : calls[i].ret = "true"

WanLoopDone ==
    /\ RandomizeMacDone
    /\ "wan" \in args.interfaces /\ args.device_index = NoIndex

\* The indices get_network_devices returned to the call, read off the lookups of
\* the first snapshot (one "uci get ...macaddr" per index, before the clone lookup).
Discovered ==
    LET k == CHOOSE j \in 1..Len(cmds) :
                 cmds[j] = UciGetClone /\ \A h \in 1..(j - 1) : cmds[h] # UciGetClone
    IN  [j \in 1..(k - 2) |-> CHOOSE i \in DevIndices : UciGetMac(i) = cmds[j + 1]]

\* The set_wan_mac_address calls of the loop, in order.
WanTries == SelectSeq(calls, LAMBDA c : c.op = "set_wan_mac_address")

\* The device entries whose MAC the call has changed.
DeviceEntriesChanged ==
    {i \in DevIndices :
        /\ DevKey(i) \in world.staged \cup world.committed
        /\ DevKey(i) \notin args.before.staged \cup args.before.committed}

\* C40: with no device index given, the WAN step calls set_wan_mac_address on the
\* discovered indices in order and stops at the first that reports success; the
\* direct set of network.wan.macaddr is tried exactly when every index reported
\* failure or none was discovered, and after them; at most one device entry has
\* its MAC changed.
C40_WanStopsAtFirstSuccess ==
    WanLoopDone =>
        LET n == Len(WanTries)
            direct == CallsOf({"direct"})
        IN  /\ n <= Len(Discovered)
            /\ \A j \in 1..n : WanTries[j].arg = Str(Discovered[j])
            /\ \A j \in 1..(n - 1) : WanTries[j].ret = "false"
            /\ n < Len(Discovered) => WanTries[n].ret = "true"
            /\ Cardinality(direct) <= 1
            /\ direct # {} <=> \A j \in 1..n : WanTries[j].ret = "false"
            /\ \A d \in direct, t \in CallsOf({"set_wan_mac_address"}) : t < d
            /\ Cardinality(DeviceEntriesChanged) <= 1

\* The first index failed, the second succeeded and its entry alone changed; no
\* direct set.
C40_Witness ==
    /\ WanLoopDone /\ ~args.dry_run
    /\ Len(WanTries) = 2
    /\ WanTries[1].ret = "false" /\ WanTries[2].ret = "true"
    /\ DeviceEntriesChanged = {1}
    /\ CallsOf({"direct"}) = {}

\* Two indices discovered, the first succeeded: the second was not tried.
C40_WitnessStops ==
    /\ WanLoopDone /\ ~args.dry_run
    /\ Len(Discovered) = 2 /\ Len(WanTries) = 1
    /\ DeviceEntriesChanged = {0}
    /\ CmdsIn({UciSet(DevKey(1)), UciSet(WanKey)}) = {}

\* Every index failed: the direct set staged network.wan.macaddr.
C40_WitnessDirect ==
    /\ WanLoopDone /\ ~args.dry_run
    /\ Len(WanTries) = 2
    /\ \A j \in 1..2 : WanTries[j].ret = "false"
    /\ CallsOf({"direct"}) # {}
    /\ DeviceEntriesChanged = {}
    /\ WanKey \in world.staged \cup world.committed

\* No index discovered: the direct set alone.
C40_WitnessEmpty ==
    /\ WanLoopDone /\ ~args.dry_run
    /\ Len(Discovered) = 0 /\ Len(WanTries) = 0
    /\ CallsOf({"direct"}) # {}

C32_WitnessNoSet ==
    /\ RandomizeMacDone /\ ret = "true"
    /\ args.interfaces = {"wan", "upstream"} /\ ~args.dry_run /\ ~args.no_restart
    /\ ~SomeSetSucceeded
    /\ CmdsIn(UciCommitCmds \cup {NetworkRestart}) = {}

\* Sets, then both commits, then the restart.
C32_WitnessRestart ==
    /\ RandomizeMacDone /\ ret = "true"
    /\ Cardinality(CallsOf(SetOps)) >= 2
    /\ Cardinality(CmdsIn(UciCommitCmds)) = 2
    /\ CmdsIn({NetworkRestart}) # {}

----------------------------------------------------------------------------
(* One call of get_network_devices on a listing text.                      *)

\* Most lines of a listing.
MaxLines == 3

ListingLines ==
    {DeviceLine(<<"0">>), DeviceLine(<<"1">>), DeviceLine(<<"0", "2">>),
     DeviceLine(<<"1", "0">>), OtherLine}

Listings == UNION {[1..n -> ListingLines] : n \in 0..MaxLines}

InitDevices ==
    /\ pc = "call"
    /\ \E out \in Listings, o \in ExecutorOutcomes :
          args = [op |-> "get_network_devices", out |-> out, outcome |-> o]
    /\ ret = "none"
    /\ cmds = << >>
    /\ device = TRUE
    /\ elapsed = 0
    /\ attempt = 0
    /\ hist = NoHist
    /\ world = World0
    /\ calls = << >>
    /\ success = TRUE

CallGetNetworkDevices ==
    /\ pc = "call" /\ args.op = "get_network_devices"
    /\ ret' = get_network_devices(args.out, args.outcome)
    /\ cmds' = Append(cmds, UciShowDevices)
    /\ pc' = "done"
    /\ UNCHANGED <<args, device, elapsed, attempt, hist, world, calls, success>>

NextDevices == CallGetNetworkDevices

SpecDevices == InitDevices /\ [][NextDevices]_vars

GetDevicesDone == pc = "done" /\ args.op = "get_network_devices"

\* The lines of the listing that name a device, and whether ret lists them in order.
EntryLines == {i \in 1..Len(args.out) : args.out[i].digits # << >>}

ListsEntriesInOrder ==
    /\ Len(ret) = Cardinality(EntryLines)
    /\ \A i \in EntryLines :
          ret[Cardinality({j \in EntryLines : j <= i})] = IntOf(args.out[i].digits)

\* C33: get_network_devices returns [0] on any failure of the listing (the
\* command raising, exiting nonzero, or yielding no parsable device entry) and
\* never propagates an error; otherwise it returns the device indices found in
\* the listing, in order.
C33_FallbackOnAnyFailure ==
    GetDevicesDone =>
        IF args.outcome # "ok" \/ EntryLines = {}
        THEN ret = <<0>>
        ELSE ListsEntriesInOrder

\* A nonzero exit code with nothing printed: the call returns the empty list.
C33_EmptyOnNonzeroExit ==
    /\ GetDevicesDone /\ args.outcome = "fail" /\ args.out = << >>
    /\ ret = << >>

\* What the code does: [0] only when the command raised, otherwise the entries
\* found, in order, which may be none.
C33_FallbackOnRaise ==
    GetDevicesDone =>
        IF args.outcome = "raise" THEN ret = <<0>> ELSE ListsEntriesInOrder

----------------------------------------------------------------------------
(* The orchestrator: main() of bluecode/cli.py, in randomization mode.     *)

\* Most commands or file operations that go wrong within one operation of a run.
MainFaults == 1

AllKinds == {"bssid", "mac", "imei", "logs"}

MainEnvCmd == {e \in EnvCmd : Cardinality({i \in DOMAIN e : e[i] = "fail"}) <= MainFaults}

MainEnvMac == {e \in MacEnv : Cardinality({f \in DOMAIN e : e[f] = "fail"}) <= MainFaults}

ImeiFaults(e) ==
    e.cfun + e.egmr + (IF e.save THEN 0 ELSE 1) + (IF e.reboot = "ok" THEN 0 ELSE 1)
    + (IF e.marker THEN 0 ELSE 1)

MainEnvImei == {e \in EnvImei : ImeiFaults(e) <= MainFaults}

\* process_bssid_randomization, lines 99-102: the result of reset_wifi is dropped.
BssidReset(b, r) == [ret |-> b.ret, cmds |-> b.cmds \o r.cmds, world |-> r.world]

BssidFinish(b, dry_run, no_restart, e) ==
    IF b.ret = "true" /\ b.changes # << >> /\ ~dry_run /\ ~no_restart
    THEN BssidReset(b, BSSID_reset_wifi(dry_run, b.world, Shift(e, 3)))
    ELSE [ret |-> b.ret, cmds |-> b.cmds, world |-> b.world]

\* process_bssid_randomization(bssid_manager, dry_run, no_restart)
process_bssid_randomization(dry_run, no_restart, w, e) ==
    BssidFinish(BSSID_set_bssid_for_interfaces(DefaultWifiInterfaces, dry_run, w, e),
                dry_run, no_restart, e)

\* process_mac_randomization(mac_manager, interfaces, device_index, dry_run, no_restart)
process_mac_randomization(interfaces, device_index, dry_run, no_restart, w, e) ==
    randomize_mac_addresses(interfaces, device_index, dry_run, no_restart, w, e)

\* Mutant: the IMEI is set without the reboot, whatever reboot_after says.
process_imei_never_reboots(reboot_after, w, e) ==
    set_imei(Digits(15), FALSE, w, e)

\* process_imei_randomization(reboot_after): a generated IMEI is 15 ASCII digits;
\* the call takes no dry_run argument.
process_imei_randomization(reboot_after, w, e) ==
    set_imei(Digits(15), reboot_after, w, e)

\* process_log_wiping, lines 179-185: the script check after a successful real wipe.
LogsChecked(r, c) == [ret |-> r.ret, cmds |-> r.cmds \o c.cmds, world |-> c.world]

LogsFinish(r, dry_run, F) ==
    IF r.ret = "true" /\ ~dry_run
    THEN LogsChecked(r, check_init_script(r.world, F))
    ELSE [ret |-> r.ret, cmds |-> r.cmds, world |-> r.world]

\* process_log_wiping(logger, executor, dry_run)
process_log_wiping(dry_run, w, F) == LogsFinish(wipe_mac_logs(dry_run, w, F), dry_run, F)

\* Requests for MAC randomization: --interfaces, --device-index, --no-restart.
MacChoices ==
    {[interfaces |-> {"wan", "upstream"}, device_index |-> NoIndex, no_restart |-> FALSE],
     [interfaces |-> {"wan", "upstream"}, device_index |-> NoIndex, no_restart |-> TRUE],
     [interfaces |-> {"wan"}, device_index |-> 0, no_restart |-> FALSE],
     [interfaces |-> {"wan"}, device_index |-> MaxDev + 1, no_restart |-> FALSE],
     [interfaces |-> {"upstream"}, device_index |-> NoIndex, no_restart |-> FALSE]}

\* The systems a run starts on: with or without configured device entries, the
\* boot-time script enabled, disabled or missing; a log with MAC addresses and a
\* client database on disk.
MainWorlds ==
    {[LogWorld([World0.fs EXCEPT !["/var/log/messages"] = "mac"],
               [dir |-> TRUE, disk |-> TRUE, mounts |-> {}, ram |-> FALSE], d.is)
        EXCEPT !.devices = d.devices] :
       d \in {[devices |-> 0..MaxDev, is |-> "enabled"],
              [devices |-> {}, is |-> "missing"],
              [devices |-> {0}, is |-> "disabled"]}}

Init ==
    /\ pc = "main"
    /\ world \in MainWorlds
    /\ \E root \in BOOLEAN, dry_run \in BOOLEAN, R \in (SUBSET AllKinds) \ {{}},
          m \in MacChoices, nr \in BOOLEAN :
          /\ ("mac" \notin R /\ "bssid" \notin R) =>
                m = [interfaces |-> {"wan", "upstream"}, device_index |-> NoIndex,
                     no_restart |-> FALSE]
          /\ "imei" \notin R => ~nr
          /\ args = [op |-> "main", root |-> root, dry_run |-> dry_run,
                     randomize |-> R, interfaces |-> m.interfaces,
                     device_index |-> m.device_index, no_restart |-> m.no_restart,
                     no_reboot_imei |-> nr, before |-> world]
    /\ ret = "none"
    /\ cmds = << >>
    /\ device = TRUE
    /\ elapsed = 0
    /\ attempt = 0
    /\ hist = NoHist
    /\ calls = << >>
    /\ success = TRUE

\* Mutant: the privilege check is gone.
MainNeverAborts == FALSE

\* lines 367-369: not root and not a dry run.
MainAborts == ~args.root /\ ~args.dry_run

\* Mutant: an operation that reports failure ends the run.
AbortOnFailure(ok, next) == IF ok THEN next ELSE "return"

\* lines 377-414: whatever an operation returned, the next statement runs.
NextStatement(ok, next) == next

\* An operation op returned r; counts: its result is folded into success.
MainStep(op, r, counts, next) ==
    /\ success' = (success /\ (counts => r.ret = "true"))
    /\ calls' = Append(calls, [op |-> op, arg |-> "", ret |-> r.ret])
    /\ cmds' = cmds \o r.cmds
    /\ world' = r.world
    /\ pc' = NextStatement(r.ret = "true", next)
    /\ UNCHANGED <<ret, args, device, elapsed, attempt, hist>>

\* The operation was not requested.
MainSkip(next) ==
    /\ pc' = next
    /\ UNCHANGED <<ret, args, cmds, world, calls, success, device, elapsed, attempt, hist>>

\* lines 361-369
MainCheckRoot ==
    /\ pc = "main"
    /\ IF MainAborts
       THEN /\ ret' = "1"
            /\ pc' = "exit"
            /\ UNCHANGED <<args, cmds, world, calls, success, device, elapsed, attempt,
                           hist>>
       ELSE MainSkip("bssid")

\* lines 377-381
MainBssid ==
    /\ pc = "bssid"
    /\ IF "bssid" \in args.randomize
       THEN \E e \in MainEnvCmd :
               MainStep("process_bssid_randomization",
                        process_bssid_randomization(args.dry_run, args.no_restart,
                                                    world, e),
                        TRUE, "mac")
       ELSE MainSkip("mac")

\* lines 383-388
MainMac ==
    /\ pc = "mac"
    /\ IF "mac" \in args.randomize
       THEN \E e \in MainEnvMac :
               MainStep("process_mac_randomization",
                        process_mac_randomization(args.interfaces, args.device_index,
                                                  args.dry_run, args.no_restart,
                                                  world, PerDevice(e)),
                        TRUE, "imei")
       ELSE MainSkip("imei")

\* lines 390-396
MainImei ==
    /\ pc = "imei"
    /\ IF "imei" \in args.randomize
       THEN \E e \in MainEnvImei :
               MainStep("process_imei_randomization",
                        process_imei_randomization(~args.no_reboot_imei, world, e),
                        TRUE, "verify")
       ELSE MainSkip("verify")

\* The highest level at which the state of the boot script is logged: a warning
\* by check_init_script when its result is false (logs.py, lines 385-393), the
\* three error lines of main only when the run is real (cli.py, lines 403-409).
VerifyLogLevel(init_status, dry_run) ==
    IF init_status = "true" THEN "none"
    ELSE IF ~dry_run THEN "error"
    ELSE "warning"

\* lines 398-409: the result only decides what is logged.
MainVerify ==
    /\ pc = "verify"
    /\ \E F \in {{}, {At("ls_init")}} :
          LET r == check_init_script(world, F)
          IN  /\ calls' = Append(calls, [op |-> "check_init_script", arg |-> "",
                                         ret |-> r.ret,
                                         logged |-> VerifyLogLevel(r.ret, args.dry_run)])
              /\ cmds' = cmds \o r.cmds
              /\ world' = r.world
              /\ pc' = "logs"
              /\ UNCHANGED <<success, ret, args, device, elapsed, attempt, hist>>

\* lines 411-414
MainLogs ==
    /\ pc = "logs"
    /\ IF "logs" \in args.randomize
       THEN \E F \in FailureSets(FailurePoints(world), MainFaults) :
               MainStep("process_log_wiping",
                        process_log_wiping(args.dry_run, world, F), TRUE, "return")
       ELSE MainSkip("return")

\* line 416
MainReturn ==
    /\ pc = "return"
    /\ ret' = IF success THEN "0" ELSE "1"
    /\ pc' = "exit"
    /\ UNCHANGED <<args, cmds, world, calls, success, device, elapsed, attempt, hist>>

Next ==
    \/ MainCheckRoot
    \/ MainBssid
    \/ MainMac
    \/ MainImei
    \/ MainVerify
    \/ MainLogs
    \/ MainReturn

Spec == Init /\ [][Next]_vars

\* The entry of calls for each kind of randomization.
ProcessOp ==
    [k \in AllKinds |->
        CASE k = "bssid" -> "process_bssid_randomization"
          [] k = "mac"   -> "process_mac_randomization"
          [] k = "imei"  -> "process_imei_randomization"
          [] k = "logs"  -> "process_log_wiping"]

\* How many times the operation of kind k was attempted.
Attempts(k) == Cardinality({i \in 1..Len(calls) : calls[i].op = ProcessOp[k]})

\* Some requested operation reported failure.
ReportedFailure ==
    \E i \in 1..Len(calls) :
        /\ calls[i].op \in {ProcessOp[k] : k \in AllKinds}
        /\ calls[i].ret = "false"

\* C1: a run of main with dry-run active and all of mac, bssid, imei and logs
\* requested issues no mutating shell command and no mutating AT command
\* (AT+CFUN=4, AT+EGMR, reboot) at any point.
C1_DryRunAllNoMutation ==
    (args.op = "main" /\ args.dry_run /\ args.randomize = AllKinds) =>
        \A i \in 1..Len(cmds) : cmds[i] \notin MutatingCmds

\* C4: the exit code is 0 only if every requested operation succeeded: the
\* requested WAN MAC and MAC-clone address were set and committed, both BSSIDs
\* were set and committed, the IMEI was written, the known log was scrubbed.
C4_ExitZeroOnlyIfAllSucceeded ==
    (args.op = "main" /\ pc = "exit" /\ ret = "0" /\ ~args.dry_run) =>
        /\ ("mac" \in args.randomize /\ "upstream" \in args.interfaces) =>
              CloneKey \in world.committed
        /\ ("mac" \in args.randomize /\ "wan" \in args.interfaces) =>
              \/ world.linkmac
              \/ \E k \in PackageKeys("network") : k \in world.committed
        /\ "bssid" \in args.randomize =>
              \A i \in 0..1 : WifiKey(i) \in world.committed
        /\ "imei" \in args.randomize => world.nvimei = Digits(15)
        /\ "logs" \in args.randomize => world.fs["/var/log/messages"] # "mac"

\* C5: in a run that passed the privilege check, each requested operation is
\* attempted exactly once and no other is attempted, whatever the operations
\* before it returned; the exit code is 1 iff at least one of them reported
\* failure, and 0 otherwise.
C5_EachRequestedAttemptedOnce ==
    (args.op = "main" /\ pc = "exit" /\ (args.root \/ args.dry_run)) =>
        /\ \A k \in AllKinds : Attempts(k) = IF k \in args.randomize THEN 1 ELSE 0
        /\ ret = IF ReportedFailure THEN "1" ELSE "0"

\* A run with everything requested in which BSSID, IMEI and log wiping all
\* reported failure has ended.
C5_Witness ==
    /\ args.op = "main" /\ pc = "exit" /\ args.randomize = AllKinds
    /\ \A k \in {"bssid", "imei", "logs"} :
          \E i \in 1..Len(calls) : calls[i].op = ProcessOp[k] /\ calls[i].ret = "false"
    /\ ret = "1"

\* A run in which only the IMEI operation reported failure, and the log wipe
\* after it succeeded, has ended.
C5_WitnessOneFailure ==
    /\ args.op = "main" /\ pc = "exit" /\ args.randomize = AllKinds
    /\ \A i \in 1..Len(calls) :
          calls[i].ret = "false" <=> calls[i].op = "process_imei_randomization"
    /\ ret = "1"

\* C6: without root privilege and without dry-run, main returns 1 at once: no
\* operation is attempted, no command is issued and nothing changes.  With
\* dry-run the missing privilege does not abort the run: every requested
\* operation is attempted.
C6_NoPrivilegeAbortsAtOnce ==
    /\ (args.op = "main" /\ ~args.root /\ ~args.dry_run /\ pc # "main") =>
          /\ pc = "exit"
          /\ ret = "1"
          /\ calls = << >>
          /\ cmds = << >>
          /\ world = args.before
    /\ (args.op = "main" /\ ~args.root /\ args.dry_run /\ pc = "exit") =>
          \A k \in args.randomize : Attempts(k) = 1

\* An unprivileged real run with everything requested has ended.
C6_Witness ==
    /\ args.op = "main" /\ ~args.root /\ ~args.dry_run
    /\ args.randomize = AllKinds
    /\ pc = "exit" /\ ret = "1"

\* An unprivileged dry run with everything requested has ended.
C6_WitnessDryRun ==
    /\ args.op = "main" /\ ~args.root /\ args.dry_run
    /\ args.randomize = AllKinds
    /\ pc = "exit" /\ Len(calls) = 5

\* The position in calls of main's check of the boot script, 0 before it ran.
VerifyIndex ==
    IF \E i \in 1..Len(calls) : calls[i].op = "check_init_script"
    THEN CHOOSE i \in 1..Len(calls) : calls[i].op = "check_init_script"
    ELSE 0

\* C24: when main's check of the boot script returns false, in a dry run as in a
\* real run, the condition is logged at error level, a requested log wipe still
\* runs afterwards, and the exit code is 0 iff no requested operation failed.
C24_BootScriptSoftFailure ==
    (args.op = "main" /\ pc = "exit" /\ VerifyIndex > 0
        /\ calls[VerifyIndex].ret = "false") =>
        /\ calls[VerifyIndex].logged = "error"
        /\ "logs" \in args.randomize =>
              /\ Len(calls) = VerifyIndex + 1
              /\ calls[VerifyIndex + 1].op = "process_log_wiping"
        /\ ret = "0" <=> \A i \in 1..Len(calls) :
                            i # VerifyIndex => calls[i].ret = "true"

\* A dry run with the boot script missing has ended with exit code 0 after its
\* log wipe, and the state of the script was logged as a warning only.
C24_DryRunWarningOnly ==
    /\ args.op = "main" /\ pc = "exit" /\ args.dry_run
    /\ args.before.initscript = "missing"
    /\ VerifyIndex > 0
    /\ calls[VerifyIndex].ret = "false"
    /\ calls[VerifyIndex].logged = "warning"
    /\ calls[Len(calls)].op = "process_log_wiping"
    /\ ret = "0"

\* C24 for real runs: a false result of main's check is logged at error level,
\* the log wipe still runs and the exit code does not depend on the check.
C24_RealRunSoftFailure ==
    (args.op = "main" /\ pc = "exit" /\ VerifyIndex > 0 /\ ~args.dry_run
        /\ calls[VerifyIndex].ret = "false") =>
        /\ calls[VerifyIndex].logged = "error"
        /\ "logs" \in args.randomize =>
              /\ Len(calls) = VerifyIndex + 1
              /\ calls[VerifyIndex + 1].op = "process_log_wiping"
        /\ ret = "0" <=> \A i \in 1..Len(calls) :
                            i # VerifyIndex => calls[i].ret = "true"

\* The place of each step of main in the order of its statements.
MainRank ==
    [op \in {ProcessOp[k] : k \in AllKinds} \cup {"check_init_script"} |->
        CASE op = "process_bssid_randomization" -> 1
          [] op = "process_mac_randomization" -> 2
          [] op = "process_imei_randomization" -> 3
          [] op = "check_init_script" -> 4
          [] op = "process_log_wiping" -> 5]

\* The steps made so far were made in the order BSSID, MAC, IMEI, boot-script
\* verification, log wipe.
MainInFixedOrder ==
    \A i, j \in 1..Len(calls) : i < j => MainRank[calls[i].op] < MainRank[calls[j].op]

\* IMEI randomization with reboot and the log wipe are both requested, and main
\* is past the IMEI step with the log wipe not yet started.
BeforeLogWipe ==
    /\ args.op = "main" /\ pc \in {"verify", "logs"}
    /\ {"imei", "logs"} \subseteq args.randomize /\ ~args.no_reboot_imei
    /\ Attempts("logs") = 0

\* The modem took the new IMEI.
ImeiWritten == world.nvimei # args.before.nvimei

RebootIssued == Count(cmds, "/sbin/reboot") = 1

\* C37 as stated: main runs its steps in the order BSSID, MAC, IMEI, boot-script
\* verification, log wipe; so when IMEI randomization with reboot and the log wipe
\* are both requested and the IMEI write succeeded, the reboot command has been
\* issued before the log wipe starts.
C37_RebootBeforeLogWipe ==
    args.op = "main" =>
        /\ MainInFixedOrder
        /\ (BeforeLogWipe /\ ImeiWritten) => RebootIssued

\* C37, amended: the order of the steps is fixed; when IMEI randomization with
\* reboot and the log wipe are both requested and the IMEI step reported success,
\* the reboot command has been issued before the log wipe starts; when the IMEI
\* was written and no reboot command was issued, the IMEI step reported failure
\* and the log wipe still follows.
C37_RebootStartedBeforeLogWipe ==
    args.op = "main" =>
        /\ MainInFixedOrder
        /\ BeforeLogWipe =>
              LET imei == calls[CHOOSE i \in 1..Len(calls) :
                                  calls[i].op = "process_imei_randomization"]
              IN  /\ imei.ret = "true" => (ImeiWritten /\ RebootIssued)
                  /\ (ImeiWritten /\ ~RebootIssued) => imei.ret = "false"
        /\ Count(cmds, "/sbin/reboot") <= 1

\* The log wipe is about to start on a system that was told to reboot.
C37_Witness ==
    /\ BeforeLogWipe /\ pc = "logs" /\ ImeiWritten /\ RebootIssued
    /\ world.rebooting
    /\ Attempts("bssid") = 1 /\ Attempts("mac") = 1

\* The IMEI was written, the reboot command could not be started, and the log
\* wipe is about to start.
C37_WitnessNoReboot ==
    /\ BeforeLogWipe /\ pc = "logs" /\ ImeiWritten /\ ~RebootIssued
    /\ ~world.rebooting

----------------------------------------------------------------------------
(* The MAC-redaction pass of _clean_log_file (bluecode/core/logs.py).       *)

\* A text is a sequence of characters.
HexDigits == {"0", "1", "2", "3", "4", "5", "6", "7", "8", "9",
              "a", "b", "c", "d", "e", "f", "A", "B", "C", "D", "E", "F"}

\* 'XX:XX:XX:XX:XX:XX'
RedactionToken == <<"X", "X", ":", "X", "X", ":", "X", "X", ":", "X", "X", ":", "X", "X", ":", "X", "X">>

\* mac_pattern, ([0-9A-Fa-f]{2}[:-]){5}([0-9A-Fa-f]{2}), matches text t at position i.
MacPatternAt(t, i) ==
    /\ i >= 1 /\ i + 16 <= Len(t)
    /\ \A g \in 0..4 : /\ t[i + 3 * g] \in HexDigits
                       /\ t[i + 3 * g + 1] \in HexDigits
                       /\ t[i + 3 * g + 2] \in {":", "-"}
    /\ t[i + 15] \in HexDigits
    /\ t[i + 16] \in HexDigits

\* Mutant: only the first match is replaced.
RECURSIVE re_sub_first_only(_, _)
re_sub_first_only(t, i) ==
    IF i > Len(t) THEN << >>
    ELSE IF MacPatternAt(t, i) THEN RedactionToken \o SubSeq(t, i + 17, Len(t))
    ELSE <<t[i]>> \o re_sub_first_only(t, i + 1)

\* re.sub(mac_pattern, 'XX:XX:XX:XX:XX:XX', t) from position i on: the leftmost
\* match is replaced and the scan goes on behind it.
RECURSIVE re_sub(_, _)
re_sub(t, i) ==
    IF i > Len(t) THEN << >>
    ELSE IF MacPatternAt(t, i) THEN RedactionToken \o re_sub(t, i + 17)
    ELSE <<t[i]>> \o re_sub(t, i + 1)

\* The pieces the texts are put together from: plain words, addresses with colons,
\* with hyphens and with both, the token, the end of an address, single
\* characters.
TextPieces == <<<<"C", "l", "i", "e", "n", "t", " ">>,
               <<" ", "c", "o", "n", "n", "e", "c", "t", "e", "d", "\n">>,
               <<"0", "0", ":", "1", "A", ":", "2", "B", ":", "3", "C", ":", "4", "D", ":", "5", "E">>,
               <<"a", "a", "-", "b", "b", "-", "c", "c", "-", "d", "d", "-", "e", "e", "-", "f", "f">>,
               <<"0", "0", ":", "1", "A", "-", "2", "B", ":", "3", "C", ":", "4", "D">>,
               <<":", "5", "e">>,
               <<"X", "X", ":", "X", "X", ":", "X", "X", ":", "X", "X", ":", "X", "X", ":", "X", "X">>,
               <<"0">>,
               <<"0", "G", ":">>>>

\* Most pieces of a text.
MaxPieces == 3

RECURSIVE Texts(_)
Texts(n) ==
    IF n = 0 THEN {<< >>}
    ELSE LET S == Texts(n - 1)
         IN  S \cup {t \o TextPieces[k] : t \in S, k \in 1..Len(TextPieces)}

InitRedact ==
    /\ pc = "call"
    /\ \E t \in Texts(MaxPieces) : args = [op |-> "re.sub", text |-> t]
    /\ ret = "none"
    /\ cmds = << >>
    /\ device = TRUE
    /\ elapsed = 0
    /\ attempt = 0
    /\ hist = NoHist
    /\ world = World0
    /\ calls = << >>
    /\ success = TRUE

\* One pass over the text.
Redact ==
    /\ pc = "call" /\ args.op = "re.sub"
    /\ ret' = re_sub(args.text, 1)
    /\ pc' = "done"
    /\ UNCHANGED <<args, cmds, device, elapsed, attempt, hist, world, calls, success>>

\* A second pass over the result of the first, which is kept in calls.
RedactAgain ==
    /\ pc = "done" /\ args.op = "re.sub"
    /\ ret' = re_sub(ret, 1)
    /\ calls' = Append(calls, [op |-> "re.sub", arg |-> args.text, ret |-> ret])
    /\ pc' = "again"
    /\ UNCHANGED <<args, cmds, device, elapsed, attempt, hist, world, success>>

NextRedact == Redact \/ RedactAgain

SpecRedact == InitRedact /\ [][NextRedact]_vars

\* 'Client 00:1A:2B:3C:4D:5E connected' and what the pass is to make of it.
ScenarioLine == <<"C", "l", "i", "e", "n", "t", " ", "0", "0", ":", "1", "A", ":", "2", "B", ":", "3", "C", ":", "4", "D", ":", "5", "E", " ", "c", "o", "n", "n", "e", "c", "t", "e", "d", "\n">>
ScenarioRedacted == <<"C", "l", "i", "e", "n", "t", " ", "X", "X", ":", "X", "X", ":", "X", "X", ":", "X", "X", ":", "X", "X", ":", "X", "X", " ", "c", "o", "n", "n", "e", "c", "t", "e", "d", "\n">>

\* C22: one pass keeps the length of the text; it changes a character only inside
\* a match of the pattern that it replaced by the token; every match of the
\* pattern in the text overlaps a replaced one; the scenario line becomes
\* 'Client XX:XX:XX:XX:XX:XX connected'; no match of the pattern is left after
\* the pass; and a second pass returns what the first returned.
C22_RedactionPass ==
    (args.op = "re.sub" /\ pc \in {"done", "again"}) =>
        LET in == args.text
            out == IF pc = "done" THEN ret ELSE calls[1].ret
            Replaced(j) == MacPatternAt(in, j) /\ SubSeq(out, j, j + 16) = RedactionToken
        IN  /\ Len(out) = Len(in)
            /\ \A i \in 1..Len(in) :
                  out[i] # in[i] => \E j \in (i - 16)..i : Replaced(j)
            /\ \A j \in 1..Len(in) :
                  MacPatternAt(in, j) => \E k \in (j - 16)..(j + 16) : Replaced(k)
            /\ in = ScenarioLine => out = ScenarioRedacted
            /\ \A i \in 1..Len(out) : ~MacPatternAt(out, i)
            /\ pc = "again" => ret = out

\* Two passes have run over a text with an address written with colons and one
\* written with hyphens.
C22_Witness ==
    /\ args.op = "re.sub" /\ pc = "again"
    /\ args.text = TextPieces[3] \o TextPieces[1] \o TextPieces[4]
    /\ ret = RedactionToken \o TextPieces[1] \o RedactionToken

\* The pass has turned the scenario line into its redacted form.
C22_WitnessScenario ==
    /\ args.op = "re.sub" /\ pc = "done"
    /\ args.text = ScenarioLine
    /\ ret = ScenarioRedacted

----------------------------------------------------------------------------
(* Cmd.run_at_command (src/core/cmd.py): the two transports.               *)

NoTty == "none"
TtyDevices == {NoTty, "/dev/ttyUSB3", "/dev/ttyUSB2"}
AtCommands == {"AT+CFUN=4", "AT+CIMI", "AT+EGMR=1,7", "AT+QPOWD"}

\* Texts a transport may deliver: the responses above, and texts that hold the
\* letters OK only inside a longer word.
AtTexts == Responses \cup {<<W("TOKEN")>>, <<W("NOK"), D(3)>>}

\* What the transport does in a call: the helper or the serial port delivers a
\* text (the helper ending with an exit code of its own), or the call into
\* subprocess / serial raises.
AtTransports ==
    [kind : {"ran"}, text : AtTexts, code : {0, 1}]
    \cup {[kind |-> "raise", text |-> << >>, code |-> 1]}

\* str(e) of the exception caught.
ErrorText == <<W("Error")>>

GlModemCmd ==
    [c \in AtCommands |->
        [t \in TtyDevices |->
            IF t # NoTty /\ t # "/dev/ttyUSB3"
            THEN "gl_modem AT " \o c \o " --tty " \o t
            ELSE "gl_modem AT " \o c]]

SerialCmd == [c \in AtCommands |-> [t \in TtyDevices |-> t \o " < " \o c]]

\* Mutant: the helper's own exit code is returned.
run_gl_modem_exit_code(command, tty, o) ==
    IF o.kind = "raise"
    THEN [out |-> ErrorText, code |-> 1, io |-> <<GlModemCmd[command][tty]>>,
          response |-> << >>]
    ELSE [out |-> o.text, code |-> o.code, io |-> <<GlModemCmd[command][tty]>>,
          response |-> o.text]

\* Cmd.run_gl_modem(command)
run_gl_modem(command, tty, o) ==
    IF o.kind = "raise"
    THEN [out |-> ErrorText, code |-> 1, io |-> <<GlModemCmd[command][tty]>>,
          response |-> << >>]
    ELSE [out |-> o.text, code |-> AtCode(o.text), io |-> <<GlModemCmd[command][tty]>>,
          response |-> o.text]

\* Cmd.run_serial_command(command)
run_serial_command(command, tty, o) ==
    IF tty = NoTty
    THEN [out |-> ErrorText, code |-> 1, io |-> << >>, response |-> << >>]
    ELSE IF o.kind = "raise"
    THEN [out |-> ErrorText, code |-> 1, io |-> <<SerialCmd[command][tty]>>,
          response |-> << >>]
    ELSE [out |-> o.text, code |-> AtCode(o.text), io |-> <<SerialCmd[command][tty]>>,
          response |-> o.text]

\* Cmd.run_at_command(command); helper: /usr/bin/gl_modem exists.
run_at_command(command, helper, tty, o) ==
    IF helper THEN run_gl_modem(command, tty, o)
    ELSE IF tty = NoTty
    THEN [out |-> ErrorText, code |-> 1, io |-> << >>, response |-> << >>]
    ELSE run_serial_command(command, tty, o)

InitAt ==
    /\ pc = "call"
    /\ \E c \in AtCommands, h \in BOOLEAN, t \in TtyDevices :
          args = [op |-> "run_at_command", command |-> c, helper |-> h, tty |-> t]
    /\ ret = "none"
    /\ cmds = << >>
    /\ device = TRUE
    /\ elapsed = 0
    /\ attempt = 0
    /\ hist = NoHist
    /\ world = World0
    /\ calls = << >>
    /\ success = TRUE

CallRunAtCommand ==
    /\ pc = "call" /\ args.op = "run_at_command"
    /\ \E o \in AtTransports :
          LET r == run_at_command(args.command, args.helper, args.tty, o)
          IN  /\ ret' = Str(r.code)
              /\ cmds' = r.io
              /\ calls' = <<[op |-> "transport", arg |-> o.kind, ret |-> Str(o.code),
                             out |-> r.out, response |-> r.response]>>
              /\ pc' = "done"
              /\ UNCHANGED <<args, device, elapsed, attempt, hist, world, success>>

NextAt == CallRunAtCommand

SpecAt == InitAt /\ [][NextAt]_vars

RunAtDone == pc = "done" /\ args.op = "run_at_command"

\* C25: run_at_command goes through the helper when it is installed and through
\* the serial port otherwise; it returns 0 iff the text the transport delivered
\* holds the word OK in any case, whatever exit code the helper ended with and
\* nonzero when the transport raised; with no helper and no TTY device it
\* returns nonzero and does no I/O.
C25_ZeroIffOkToken ==
    RunAtDone =>
        /\ ret = "0" <=> HasOK(calls[1].response)
        /\ args.helper => cmds = <<GlModemCmd[args.command][args.tty]>>
        /\ (~args.helper /\ args.tty # NoTty) =>
              cmds = <<SerialCmd[args.command][args.tty]>>
        /\ (~args.helper /\ args.tty = NoTty) => (ret # "0" /\ cmds = << >>)
        /\ calls[1].arg = "raise" => ret # "0"

\* The helper has ended with a nonzero exit code after printing OK, and
\* run_at_command has returned 0.
C25_Witness ==
    /\ RunAtDone /\ args.helper
    /\ calls[1].arg = "ran" /\ calls[1].ret = "1"
    /\ calls[1].response = <<D(15), W("OK")>>
    /\ ret = "0"

\* The serial port has delivered a text with OK inside a longer word only, and
\* run_at_command has returned nonzero.
C25_WitnessSerial ==
    /\ RunAtDone /\ ~args.helper /\ args.tty = "/dev/ttyUSB3"
    /\ calls[1].response = <<W("TOKEN")>>
    /\ ret = "1"

\* run_at_command has returned nonzero without I/O: no helper and no TTY device.
C25_WitnessNoTransport ==
    /\ RunAtDone /\ ~args.helper /\ args.tty = NoTty
    /\ ret = "1" /\ cmds = << >>

----------------------------------------------------------------------------
(* SIM.detect_sim_type (src/core/sim.py), on util.cmd.Cmd and lib.logger.  *)

\* What the helper does with an AT query: it prints a text with the digits asked
\* for ("digits"), prints a text without them ("nodigits"), or exits nonzero
\* ("error").
AtQueryOutcomes == {"digits", "nodigits", "error"}

\* The system a detection runs on: does /dev/ttyUSB3 exist, the outcome of
\* AT+CIMI and AT+CCID, do the vSIM / eSIM indicators fire, and which of the
\* words vsim / esim the system log holds.
SimEnvs ==
    [tty : BOOLEAN, cimi : AtQueryOutcomes, ccid : AtQueryOutcomes,
     vsim : BOOLEAN, esim : BOOLEAN, logs : SUBSET {"vsim", "esim"}]

\* util.cmd.Cmd.run_at_command and the search of SIM.get_imsi / get_iccid: on a
\* nonzero exit the handler calls Logger.error on the class, without an
\* instance, which raises TypeError.
SimQuery(o) ==
    CASE o = "digits"   -> "found"
      [] o = "nodigits" -> "none"
      [] o = "error"    -> "raise"

\* Logger has the methods debug, info, warning, error, critical and log: a call
\* of self.logger.warn raises AttributeError.
LoggerHasWarn == FALSE

\* detect_sim_type, lines 178-190: no IMSI.
SimWithoutImsi(e) ==
    IF ~LoggerHasWarn
    THEN [ret |-> "raise", probes |-> <<"AT+CIMI">>]
    ELSE IF e.vsim THEN [ret |-> "virtual", probes |-> <<"AT+CIMI", "vsim">>]
    ELSE IF e.esim THEN [ret |-> "esim", probes |-> <<"AT+CIMI", "vsim", "esim">>]
    ELSE [ret |-> "unknown", probes |-> <<"AT+CIMI", "vsim", "esim">>]

\* lines 217-224: the physical SIM, after a query of its ICCID.
SimPhysical(e) ==
    [ret |-> IF SimQuery(e.ccid) = "raise" THEN "raise" ELSE "physical",
     probes |-> <<"AT+CIMI", "vsim", "esim", "logread", "AT+CCID">>]

\* lines 192-226: an IMSI was read.
SimWithImsi(e) ==
    IF e.vsim THEN [ret |-> "virtual", probes |-> <<"AT+CIMI", "vsim">>]
    ELSE IF e.esim THEN [ret |-> "esim", probes |-> <<"AT+CIMI", "vsim", "esim">>]
    ELSE IF "vsim" \in e.logs
    THEN [ret |-> "virtual", probes |-> <<"AT+CIMI", "vsim", "esim", "logread">>]
    ELSE IF "esim" \in e.logs
    THEN [ret |-> "esim", probes |-> <<"AT+CIMI", "vsim", "esim", "logread">>]
    ELSE SimPhysical(e)

\* SIM.detect_sim_type(); ret "raise": the call ends with an exception.
detect_sim_type(e) ==
    IF ~e.tty THEN [ret |-> "unknown", probes |-> << >>]
    ELSE CASE SimQuery(e.cimi) = "raise" -> [ret |-> "raise", probes |-> <<"AT+CIMI">>]
           [] SimQuery(e.cimi) = "none"  -> SimWithoutImsi(e)
           [] SimQuery(e.cimi) = "found" -> SimWithImsi(e)

InitSim ==
    /\ pc = "call"
    /\ \E e \in SimEnvs : args = [op |-> "detect_sim_type", env |-> e]
    /\ ret = "none"
    /\ cmds = << >>
    /\ device = TRUE
    /\ elapsed = 0
    /\ attempt = 0
    /\ hist = NoHist
    /\ world = World0
    /\ calls = << >>
    /\ success = TRUE

CallDetectSimType ==
    /\ pc = "call" /\ args.op = "detect_sim_type"
    /\ ret' = detect_sim_type(args.env).ret
    /\ cmds' = detect_sim_type(args.env).probes
    /\ pc' = "done"
    /\ UNCHANGED <<args, device, elapsed, attempt, hist, world, calls, success>>

NextSim == CallDetectSimType

SpecSim == InitSim /\ [][NextSim]_vars

DetectDone == pc = "done" /\ args.op = "detect_sim_type"

\* C26: detect_sim_type returns 'unknown' without a probe when the device node is
\* absent; with no IMSI 'virtual' if the vSIM indicator fires, else 'esim' if the
\* eSIM indicator fires, else 'unknown', the system log not being read; with an
\* IMSI 'virtual' / 'esim' by the indicators, else by the words vsim / esim in
\* the system log (vsim first), else 'physical'.
C26_PriorityChain ==
    DetectDone =>
        LET e == args.env IN
        /\ ~e.tty => (ret = "unknown" /\ cmds = << >>)
        /\ (e.tty /\ e.cimi # "digits") =>
              /\ ret = (IF e.vsim THEN "virtual" ELSE IF e.esim THEN "esim" ELSE "unknown")
              /\ Count(cmds, "logread") = 0
        /\ (e.tty /\ e.cimi = "digits") =>
              ret = (IF e.vsim THEN "virtual"
                     ELSE IF e.esim THEN "esim"
                     ELSE IF "vsim" \in e.logs THEN "virtual"
                     ELSE IF "esim" \in e.logs THEN "esim"
                     ELSE "physical")

\* The device node exists, AT+CIMI printed no IMSI and the vSIM indicator would
\* fire: detect_sim_type has ended with an exception before probing it.
C26_NoImsiRaises ==
    /\ DetectDone
    /\ args.env.tty /\ args.env.cimi = "nodigits" /\ args.env.vsim
    /\ ret = "raise"
    /\ cmds = <<"AT+CIMI">>

\* C26 where an IMSI was read and the ICCID query does not fail, and where the
\* device node is absent: the chain of the claim.
C26_ChainWithImsi ==
    (DetectDone /\ args.env.ccid # "error") =>
        LET e == args.env IN
        /\ ~e.tty => (ret = "unknown" /\ cmds = << >>)
        /\ (e.tty /\ e.cimi = "digits") =>
              ret = (IF e.vsim THEN "virtual"
                     ELSE IF e.esim THEN "esim"
                     ELSE IF "vsim" \in e.logs THEN "virtual"
                     ELSE IF "esim" \in e.logs THEN "esim"
                     ELSE "physical")
        /\ ret = "physical" => (e.cimi = "digits" /\ ~e.vsim /\ ~e.esim /\ e.logs = {})

----------------------------------------------------------------------------
(* MacGenerator.generate_unicast_mac (bluecode/utils/generators.py) and    *)
(* BSSID.generate_unicast_mac (src/core/bssid.py).  The 48-bit draw is     *)
(* kept as its six octets, the first the most significant: the two masks   *)
(* touch the first octet only.                                             *)

\* The first octet of a draw takes every value; the others take these.
TailOctets == {0, 171, 255}

MacDraws == {<<a>> \o t : a \in 0..255, t \in [1..5 -> TailOctets]}

\* Mutant: the multicast bit is left as drawn.
KeepMulticast(o) == o

\* mac_int &= 0xFEFFFFFFFFFF, on the first octet: bit 0 cleared.
ClearMulticast(o) == o - (o % 2)

\* mac_int |= 0x020000000000, on the first octet: bit 1 set.
SetLocal(o) == IF (o \div 2) % 2 = 1 THEN o ELSE o + 2

LowerHex == <<"0", "1", "2", "3", "4", "5", "6", "7", "8", "9",
              "a", "b", "c", "d", "e", "f">>

\* format(mac_int, '012x') cut into pairs joined by ':', for the octets m[i..].
RECURSIVE FormatMac(_, _)
FormatMac(m, i) ==
    IF i > Len(m) THEN << >>
    ELSE (IF i > 1 THEN <<":">> ELSE << >>)
         \o <<LowerHex[(m[i] \div 16) + 1], LowerHex[(m[i] % 16) + 1]>>
         \o FormatMac(m, i + 1)

\* MacGenerator.generate_unicast_mac() for the draw d: clear, then set.
generate_unicast_mac(d) ==
    FormatMac([d EXCEPT ![1] = SetLocal(ClearMulticast(d[1]))], 1)

\* BSSID.generate_unicast_mac() for the draw d: set, then clear.
BSSID_generate_unicast_mac(d) ==
    FormatMac([d EXCEPT ![1] = ClearMulticast(SetLocal(d[1]))], 1)

InitMacGen ==
    /\ pc = "call"
    /\ \E d \in MacDraws, g \in {"MacGenerator", "BSSID"} :
          args = [op |-> "generate_unicast_mac", generator |-> g, draw |-> d]
    /\ ret = "none"
    /\ cmds = << >>
    /\ device = TRUE
    /\ elapsed = 0
    /\ attempt = 0
    /\ hist = NoHist
    /\ world = World0
    /\ calls = << >>
    /\ success = TRUE

CallGenerateUnicastMac ==
    /\ pc = "call" /\ args.op = "generate_unicast_mac"
    /\ ret' = IF args.generator = "BSSID" THEN BSSID_generate_unicast_mac(args.draw)
              ELSE generate_unicast_mac(args.draw)
    /\ pc' = "done"
    /\ UNCHANGED <<args, cmds, device, elapsed, attempt, hist, world, calls, success>>

NextMacGen == CallGenerateUnicastMac

SpecMacGen == InitMacGen /\ [][NextMacGen]_vars

\* The value of a hex digit written in lower case, -1 for any other character.
LowerHexValue(c) ==
    IF \E v \in 1..16 : LowerHex[v] = c
    THEN (CHOOSE v \in 1..16 : LowerHex[v] = c) - 1
    ELSE -1

\* The octet written at the k-th pair of the address text t.
OctetAt(t, k) == 16 * LowerHexValue(t[3 * k - 2]) + LowerHexValue(t[3 * k - 1])

\* C27: every address a generator returns is 17 characters long, six pairs of
\* lower-case hex digits with a colon between them; bit 0 of its first octet is
\* 0 and bit 1 is 1; and every other bit is as drawn.
C27_UnicastLocalLowercase ==
    (pc = "done" /\ args.op = "generate_unicast_mac") =>
        /\ Len(ret) = 17
        /\ \A i \in 1..17 :
              IF i % 3 = 0 THEN ret[i] = ":" ELSE LowerHexValue(ret[i]) >= 0
        /\ OctetAt(ret, 1) % 2 = 0
        /\ (OctetAt(ret, 1) \div 2) % 2 = 1
        /\ OctetAt(ret, 1) \div 4 = args.draw[1] \div 4
        /\ \A k \in 2..6 : OctetAt(ret, k) = args.draw[k]

\* A draw with the multicast bit set and the local bit clear (first octet 0x01)
\* has come out as 02:ab:ff:00:ab:ff.
C27_Witness ==
    /\ pc = "done" /\ args.op = "generate_unicast_mac"
    /\ args.generator = "MacGenerator"
    /\ args.draw = <<1, 171, 255, 0, 171, 255>>
    /\ ret = <<"0", "2", ":", "a", "b", ":", "f", "f", ":", "0", "0", ":",
               "a", "b", ":", "f", "f">>

\* The BSSID generator has turned the all-ones draw into fe:ff:ff:ff:ff:ff.
C27_WitnessBssid ==
    /\ pc = "done" /\ args.op = "generate_unicast_mac"
    /\ args.generator = "BSSID"
    /\ args.draw = <<255, 255, 255, 255, 255, 255>>
    /\ ret = <<"f", "e", ":", "f", "f", ":", "f", "f", ":", "f", "f", ":",
               "f", "f", ":", "f", "f">>

----------------------------------------------------------------------------
(* ImeiGenerator (bluecode/utils/generators.py) and the generator of       *)
(* ModemController (src/core/modem.py).  An IMEI is its sequence of digits. *)

\* ImeiGenerator.COMMON_TACS
COMMON_TACS ==
    <<<<3, 5, 7, 0, 9, 5, 0, 5>>,
      <<3, 5, 3, 3, 2, 9, 1, 0>>,
      <<3, 5, 8, 8, 1, 5, 0, 5>>,
      <<3, 5, 9, 2, 5, 4, 0, 7>>,
      <<3, 5, 4, 1, 1, 4, 0, 2>>,
      <<3, 5, 3, 1, 2, 7, 0, 6>>,
      <<3, 5, 8, 4, 4, 2, 0, 6>>,
      <<3, 5, 8, 5, 0, 9, 0, 5>>,
      <<3, 5, 9, 2, 9, 0, 0, 5>>>>

\* ModemController.KNOWN_TACS, each as str() writes it.
KNOWN_TACS ==
    <<<<3, 5, 6, 7, 5, 9, 0, 4>>,
      <<4, 9, 0, 1, 3, 9, 2, 0>>,
      <<4, 9, 5, 0, 2, 2, 2, 0>>,
      <<3, 5, 2, 5, 0, 5, 0, 0>>,
      <<4, 9, 0, 1, 2, 2, 4, 1>>,
      <<3, 5, 0, 6, 0, 6, 8, 0>>,
      <<4, 4, 9, 1, 9, 4, 5, 1>>,
      <<3, 5, 8, 6, 3, 9, 0, 7>>,
      <<4, 4, 8, 1, 4, 5, 5, 1>>,
      <<3, 5, 6, 4, 9, 6, 0, 4>>,
      <<3, 5, 5, 3, 8, 0, 2, 5>>,
      <<3, 5, 4, 8, 0, 9, 1, 0>>>>

\* Some of the TACs that random.choices('0123456789', k=8) may draw.
RandomTacs ==
    <<<<0, 0, 0, 0, 0, 0, 0, 0>>,
      <<9, 9, 9, 9, 9, 9, 9, 9>>,
      <<1, 2, 3, 4, 5, 6, 7, 8>>>>

\* The digits a random serial number is made of here: one that doubles to itself,
\* one whose double is reduced by 9 to 1, and the largest.
SerialDigits == {0, 5, 9}

\* The sum of the Luhn algorithm over the digits ds[1..k], i counting them from
\* the right, from 0: the digits at odd i are doubled, and 9 is taken off a double
\* above 9.
RECURSIVE LuhnTotal(_, _)
LuhnTotal(ds, k) ==
    IF k = 0 THEN 0
    ELSE LET i == Len(ds) - k
             d == ds[k]
             n == IF i % 2 = 1 THEN (IF 2 * d > 9 THEN 2 * d - 9 ELSE 2 * d) ELSE d
         IN  n + LuhnTotal(ds, k - 1)

\* Mutant: the total itself, modulo 10, is the check digit.
luhn_total_mod_10(digits) == LuhnTotal(digits, Len(digits)) % 10

\* ImeiGenerator._calculate_luhn_check_digit(digits), and
\* ModemController.generate_luhn_checksum(digits).
calculate_luhn_check_digit(digits) == (10 - (LuhnTotal(digits, Len(digits)) % 10)) % 10

\* generate_random_imei() with TAC tac and serial number serial drawn.
generate_random_imei(tac, serial) ==
    Append(tac \o serial, calculate_luhn_check_digit(tac \o serial))

\* ImeiGenerator.validate_imei(imei), for a sequence of characters that are
\* decimal digits (their values) or not (-1).
validate_imei(imei) ==
    /\ \A i \in 1..Len(imei) : imei[i] \in 0..9
    /\ Len(imei) = 15
    /\ imei[15] = calculate_luhn_check_digit(SubSeq(imei, 1, 14))

\* The TACs a generator may pick.
TacsOf(g) ==
    IF g = "ModemController" THEN Range(KNOWN_TACS)
    ELSE Range(COMMON_TACS) \cup Range(RandomTacs)

InitImeiGen ==
    /\ pc = "call"
    /\ \E g \in {"ImeiGenerator", "ModemController"} :
          \E tac \in TacsOf(g), serial \in [1..6 -> SerialDigits] :
             args = [op |-> "generate_random_imei", generator |-> g,
                     tac |-> tac, serial |-> serial]
    /\ ret = "none"
    /\ cmds = << >>
    /\ device = TRUE
    /\ elapsed = 0
    /\ attempt = 0
    /\ hist = NoHist
    /\ world = World0
    /\ calls = << >>
    /\ success = TRUE

CallGenerateRandomImei ==
    /\ pc = "call" /\ args.op = "generate_random_imei"
    /\ ret' = generate_random_imei(args.tac, args.serial)
    /\ pc' = "done"
    /\ UNCHANGED <<args, cmds, device, elapsed, attempt, hist, world, calls, success>>

\* validate_imei is called on the IMEI generated.
CallValidateImei ==
    /\ pc = "done" /\ args.op = "generate_random_imei"
    /\ calls' = Append(calls, [op |-> "validate_imei", arg |-> ret,
                               ret |-> BoolStr(validate_imei(ret))])
    /\ pc' = "validated"
    /\ UNCHANGED <<args, ret, cmds, device, elapsed, attempt, hist, world, success>>

\* validate_imei is called on the IMEI with another check digit in its place.
CallValidateMutated ==
    /\ pc = "validated" /\ args.op = "generate_random_imei"
    /\ \E d \in (0..9) \ {ret[15]} :
          calls' = Append(calls, [op |-> "validate_imei", arg |-> [ret EXCEPT ![15] = d],
                                  ret |-> BoolStr(validate_imei([ret EXCEPT ![15] = d]))])
    /\ pc' = "mutated"
    /\ UNCHANGED <<args, ret, cmds, device, elapsed, attempt, hist, world, success>>

NextImeiGen == CallGenerateRandomImei \/ CallValidateImei \/ CallValidateMutated

SpecImeiGen == InitImeiGen /\ [][NextImeiGen]_vars

\* The digit d as the Luhn algorithm counts it when it is doubled.
LuhnDoubled(d) == IF d >= 5 THEN 2 * d - 9 ELSE 2 * d

----------------------------------------------------------------------------
(* ModemController.generate_random_imei(deterministic) (src/core/modem.py) *)
(* on the process-wide generator of the random module.  The state of the   *)
(* generator, kept in hist, is the seed it was last seeded with and the    *)
(* number of draws made since; what it draws next is a function of both.   *)

\* What get_imsi may return: an IMSI, or None.
NoImsi == "none"
Imsis == {"310150123456789", "262011234567890"}

\* Seeds the generator may have been started with from the system's entropy.
EntropySeeds == {"entropy-1", "entropy-2"}

\* Most draws other code makes between two calls.
MaxOtherDraws == 2

SeedNumber ==
    [s \in Imsis \cup EntropySeeds |->
        CASE s = "310150123456789" -> 1
          [] s = "262011234567890" -> 2
          [] s = "entropy-1"       -> 3
          [] s = "entropy-2"       -> 4]

\* The draw a generator in state g makes from k values, as a number in 0..k-1: a
\* stand-in for the Mersenne Twister, fixed by the seed and the draws made.
Draw(g, k) == (SeedNumber[g.seed] * 7 + g.n * g.n * 3 + g.n * 5 + 1) % k

Advance(g) == [g EXCEPT !.n = @ + 1]

\* Mutant: the generator is never seeded.
NeverSeed(deterministic, imsi, g) == g

\* lines 254-261: random.seed(imsi) when deterministic and an IMSI was read.
SeedIfDeterministic(deterministic, imsi, g) ==
    IF deterministic /\ imsi # NoImsi THEN [seed |-> imsi, n |-> 0] ELSE g

\* lines 269-270: the digits drawn from generator state g for places i..6.
RECURSIVE RandomPart(_, _)
RandomPart(g, i) ==
    IF i > 6 THEN << >>
    ELSE <<Draw(g, 10)>> \o RandomPart(Advance(g), i + 1)

\* lines 264-277, from generator state g: the TAC, six digits, the check digit.
ImeiFrom(g) ==
    Append(KNOWN_TACS[Draw(g, Len(KNOWN_TACS)) + 1] \o RandomPart(Advance(g), 1),
           calculate_luhn_check_digit(
               KNOWN_TACS[Draw(g, Len(KNOWN_TACS)) + 1] \o RandomPart(Advance(g), 1)))

\* ModemController.generate_random_imei(deterministic) with get_imsi returning
\* imsi and the generator in state g: the IMEI and the generator afterwards.
seeded_generate_random_imei(deterministic, imsi, g) ==
    [imei |-> ImeiFrom(SeedIfDeterministic(deterministic, imsi, g)),
     rng |-> [SeedIfDeterministic(deterministic, imsi, g) EXCEPT !.n = @ + 7]]

InitSeeded ==
    /\ pc = "call"
    /\ \E d \in BOOLEAN : args = [op |-> "seeded_generate_random_imei", deterministic |-> d]
    /\ ret = "none"
    /\ cmds = << >>
    /\ device = TRUE
    /\ elapsed = 0
    /\ attempt = 0
    /\ \E s \in EntropySeeds : hist = [seed |-> s, n |-> 0]
    /\ world = World0
    /\ calls = << >>
    /\ success = TRUE

\* One call; get_imsi returns imsi.  The first call leaves room for other code.
CallSeededGenerate ==
    /\ pc \in {"call", "between"} /\ args.op = "seeded_generate_random_imei"
    /\ \E imsi \in Imsis \cup {NoImsi} :
          LET r == seeded_generate_random_imei(args.deterministic, imsi, hist)
          IN  /\ ret' = r.imei
              /\ hist' = r.rng
              /\ calls' = Append(calls, [op |-> "generate_random_imei", arg |-> imsi,
                                         ret |-> r.imei])
    /\ pc' = IF pc = "call" THEN "between" ELSE "done"
    /\ UNCHANGED <<args, cmds, device, elapsed, attempt, world, success>>

\* Other code draws from the generator between the two calls.
OtherDraw ==
    /\ pc = "between" /\ args.op = "seeded_generate_random_imei"
    /\ elapsed < MaxOtherDraws
    /\ hist' = Advance(hist)
    /\ elapsed' = elapsed + 1
    /\ UNCHANGED <<pc, args, ret, cmds, device, attempt, world, calls, success>>

\* Other code seeds the generator anew between the two calls.
OtherSeed ==
    /\ pc = "between" /\ args.op = "seeded_generate_random_imei"
    /\ elapsed < MaxOtherDraws
    /\ \E s \in EntropySeeds : hist' = [seed |-> s, n |-> 0]
    /\ elapsed' = elapsed + 1
    /\ UNCHANGED <<pc, args, ret, cmds, device, attempt, world, calls, success>>

NextSeeded == CallSeededGenerate \/ OtherDraw \/ OtherSeed

SpecSeeded == InitSeeded /\ [][NextSeeded]_vars

\* C29: two successive calls of generate_random_imei(deterministic=True) for which
\* get_imsi returned the same IMSI return the same IMEI, whatever was drawn from
\* the generator, or however it was seeded, between them.
C29_SameImsiSameImei ==
    (args.op = "seeded_generate_random_imei" /\ args.deterministic /\ Len(calls) = 2
        /\ calls[1].arg # NoImsi /\ calls[1].arg = calls[2].arg) =>
        calls[1].ret = calls[2].ret

\* Two deterministic calls under one IMSI have returned the same IMEI, although
\* other code used the generator between them.
C29_Witness ==
    /\ args.op = "seeded_generate_random_imei" /\ args.deterministic
    /\ pc = "done" /\ Len(calls) = 2
    /\ elapsed >= 1
    /\ calls[1].arg = "310150123456789" /\ calls[2].arg = "310150123456789"
    /\ calls[1].ret = calls[2].ret
    /\ hist = [seed |-> "310150123456789", n |-> 7]

\* Two calls that were not deterministic have returned different IMEIs under one
\* IMSI.
C29_WitnessUnseeded ==
    /\ args.op = "seeded_generate_random_imei" /\ ~args.deterministic
    /\ Len(calls) = 2
    /\ calls[1].arg = "310150123456789" /\ calls[2].arg = "310150123456789"
    /\ calls[1].ret # calls[2].ret

----------------------------------------------------------------------------
(* ModemController.__init__ (src/core/modem.py): the choice of the device   *)
(* path.  world.exists is the set of paths that exist; calls lists the      *)
(* os.path.exists probes the choice made, in order.                         *)

MODEM_TTY_DEVICES == <<"/dev/ttyUSB0", "/dev/ttyUSB3">>
VsimMarkers == <<"/tmp/vsim", "/etc/vsim">>

\* tty_device as passed: None, the empty string, a candidate, another path.
TtyArguments == {NoTty, "", "/dev/ttyUSB0", "/dev/ttyUSB2"}

ProbedPaths == Range(MODEM_TTY_DEVICES) \cup Range(VsimMarkers) \cup {"/dev/ttyUSB2"}

Probe(p, E) == [op |-> "os.path.exists", arg |-> p, ret |-> BoolStr(p \in E)]

\* Probe the paths ps in order, up to and including the first that exists.
RECURSIVE ProbeUntilFound(_, _)
ProbeUntilFound(ps, E) ==
    IF ps = << >> THEN << >>
    ELSE IF Head(ps) \in E THEN <<Probe(Head(ps), E)>>
    ELSE <<Probe(Head(ps), E)>> \o ProbeUntilFound(Tail(ps), E)

Found(pr) == pr # << >> /\ pr[Len(pr)].ret = "true"

\* detect_sim_type_simple()
detect_sim_type_simple(E) ==
    LET pr == ProbeUntilFound(VsimMarkers, E)
    IN  [ret |-> IF Found(pr) THEN "virtual" ELSE "physical", probes |-> pr]

\* Mutant: the candidate list is scanned before the preferred device is looked at.
find_available_tty_list_first(preferred_tty, E) ==
    LET scan == ProbeUntilFound(MODEM_TTY_DEVICES, E)
    IN  IF Found(scan) THEN [ret |-> scan[Len(scan)].arg, probes |-> scan]
        ELSE [ret |-> IF preferred_tty # NoTty THEN preferred_tty
                      ELSE MODEM_TTY_DEVICES[1],
              probes |-> scan]

\* _find_available_tty(preferred_tty)
find_available_tty(preferred_tty, E) ==
    LET first == IF preferred_tty \in {NoTty, ""} THEN << >>
                 ELSE <<Probe(preferred_tty, E)>>
        scan == ProbeUntilFound(MODEM_TTY_DEVICES, E)
    IN  IF Found(first) THEN [ret |-> preferred_tty, probes |-> first]
        ELSE IF Found(scan)
        THEN [ret |-> scan[Len(scan)].arg, probes |-> first \o scan]
        ELSE [ret |-> IF preferred_tty \notin {NoTty, ""} THEN preferred_tty
                      ELSE MODEM_TTY_DEVICES[1],
              probes |-> first \o scan]

\* __init__, lines 37-44: self.tty_device.
select_tty_device(tty_device, E) ==
    IF tty_device \notin {NoTty, ""}
    THEN [ret |-> tty_device, probes |-> << >>]
    ELSE LET sim == detect_sim_type_simple(E)
             f == find_available_tty(IF sim.ret = "virtual" THEN "/dev/ttyUSB0"
                                     ELSE "/dev/ttyUSB3", E)
         IN  [ret |-> f.ret, probes |-> sim.probes \o f.probes]

InitTty ==
    /\ pc = "call"
    /\ \E t \in TtyArguments : args = [op |-> "ModemController", tty_device |-> t]
    /\ \E E \in SUBSET ProbedPaths : world = [exists |-> E]
    /\ ret = "none"
    /\ cmds = << >>
    /\ device = TRUE
    /\ elapsed = 0
    /\ attempt = 0
    /\ hist = [warned |-> FALSE]
    /\ calls = << >>
    /\ success = TRUE

\* ModemController(tty_device): lines 37-53; hist.warned is the warning of
\* lines 49-51 that the chosen device is not there.
CallModemController ==
    /\ pc = "call" /\ args.op = "ModemController"
    /\ LET r == select_tty_device(args.tty_device, world.exists)
       IN  /\ ret' = r.ret
           /\ calls' = r.probes
           /\ hist' = [warned |-> r.ret \notin world.exists]
    /\ pc' = "done"
    /\ UNCHANGED <<args, cmds, device, elapsed, attempt, world, success>>

NextTty == CallModemController

SpecTty == InitTty /\ [][NextTty]_vars

TtyChosen == pc = "done" /\ args.op = "ModemController"

\* The candidates that exist, as positions of the list.
ExistingCandidates ==
    {i \in 1..Len(MODEM_TTY_DEVICES) : MODEM_TTY_DEVICES[i] \in world.exists}

\* C36: an explicitly supplied device path is used unchanged and nothing is
\* probed to choose it; otherwise the preferred candidate (ttyUSB0 for a virtual
\* SIM, ttyUSB3 otherwise) is chosen if it exists, else the first existing
\* candidate of the list, else the preferred one; so without an explicit path the
\* choice is a candidate, and one that exists whenever any candidate exists.
C36_DevicePathSelection ==
    TtyChosen =>
        IF args.tty_device \notin {NoTty, ""}
        THEN ret = args.tty_device /\ calls = << >>
        ELSE LET virtual == Range(VsimMarkers) \cap world.exists # {}
                 preferred == IF virtual THEN "/dev/ttyUSB0" ELSE "/dev/ttyUSB3"
             IN  /\ preferred \in world.exists => ret = preferred
                 /\ (preferred \notin world.exists /\ ExistingCandidates # {}) =>
                       \E i \in ExistingCandidates :
                          /\ ret = MODEM_TTY_DEVICES[i]
                          /\ \A j \in ExistingCandidates : i <= j
                 /\ ExistingCandidates = {} => ret = preferred
                 /\ ret \in Range(MODEM_TTY_DEVICES)
                 /\ ExistingCandidates # {} => ret \in world.exists
                 /\ hist.warned <=> ExistingCandidates = {}

\* Physical SIM, the preferred ttyUSB3 is missing: ttyUSB0 is chosen from the list.
C36_Witness ==
    /\ TtyChosen /\ args.tty_device = NoTty
    /\ world.exists \cap (Range(VsimMarkers) \cup {"/dev/ttyUSB3"}) = {}
    /\ "/dev/ttyUSB0" \in world.exists
    /\ ret = "/dev/ttyUSB0"

\* An explicit path that does not exist is kept although both candidates exist.
C36_WitnessExplicit ==
    /\ TtyChosen /\ args.tty_device = "/dev/ttyUSB2"
    /\ world.exists = Range(MODEM_TTY_DEVICES)
    /\ ret = "/dev/ttyUSB2" /\ calls = << >> /\ hist.warned

\* Both candidates exist and the SIM is physical: the preferred ttyUSB3 wins
\* over ttyUSB0, the first of the list.
C36_WitnessPreferred ==
    /\ TtyChosen /\ args.tty_device = NoTty
    /\ world.exists = Range(MODEM_TTY_DEVICES)
    /\ ret = "/dev/ttyUSB3"

----------------------------------------------------------------------------
(* The identity queries get_imsi, get_imei and get_iccid (src/core/modem.py) *)
(* on one AT exchange, next to restart_modem, which verifies with get_imsi.  *)

IdentityQueries == {"get_imsi", "get_imei", "get_iccid"}

QueryCommand ==
    [q \in IdentityQueries |->
        CASE q = "get_imsi" -> "AT+CIMI"
          [] q = "get_imei" -> "AT+GSN"
          [] q = "get_iccid" -> "AT+CCID"]

\* The digit runs a query accepts: shortest and longest.
QueryDigits ==
    [q \in IdentityQueries |->
        CASE q = "get_imsi" -> <<6, 15>>
          [] q = "get_imei" -> <<14, 15>>
          [] q = "get_iccid" -> <<18, 22>>]

\* Most tokens of a response.
MaxTokens == 2

QueryTokens ==
    {W("OK"), W("ERROR")} \cup {D(n) : n \in {5, 6, 13, 14, 15, 16, 18, 22, 23}}

QueryResponses == UNION {[1..n -> QueryTokens] : n \in 0..MaxTokens}

\* Mutant: a query gives no value when the exchange was classified as failed.
identity_query_checks_code(q, o) ==
    IF o.code # 0 THEN 0
    ELSE FirstDigits(o.out, QueryDigits[q][1], QueryDigits[q][2])

\* get_imsi() / get_imei() / get_iccid() on the exchange o = (output, code): the
\* length of the identity found, 0 for None.
identity_query(q, o) ==
    CASE q = "get_imsi" -> get_imsi(o.out)
      [] q = "get_imei" -> get_imei(o.out)
      [] q = "get_iccid" -> get_iccid(o.out)

InitIdentity ==
    \/ InitModem
    \/ /\ pc = "query"
       /\ \E q \in IdentityQueries, out \in QueryResponses :
             args = [op |-> q, out |-> out, code |-> AtCode(out)]
       /\ ret = "none"
       /\ cmds = << >>
       /\ device = TRUE
       /\ elapsed = 0
       /\ attempt = 0
       /\ hist = NoHist
       /\ world = World0
       /\ calls = << >>
       /\ success = TRUE

CallIdentityQuery ==
    /\ pc = "query"
    /\ ret' = identity_query(args.op, [out |-> args.out, code |-> args.code])
    /\ cmds' = Append(cmds, QueryCommand[args.op])
    /\ pc' = "done"
    /\ UNCHANGED <<args, device, elapsed, attempt, hist, world, calls, success>>

NextIdentity ==
    \/ NextModem
    \/ CallIdentityQuery

SpecIdentity == InitIdentity /\ [][NextIdentity]_vars

QueryDone == pc = "done" /\ args.op \in IdentityQueries

\* The response holds a run of lo..hi digits.
HasDigitRun(out, lo, hi) == \E i \in 1..Len(out) : out[i].n >= lo /\ out[i].n <= hi

\* C39: get_imsi, get_imei and get_iccid take their result from the response
\* text alone: a response with a digit run of the expected length yields a value
\* whether or not it holds OK, one without such a run yields none; and
\* restart_modem reports success on the first AT+CIMI response with such a run,
\* whatever exit code the command channel gave that exchange.
C39_IdentityIgnoresExitCode ==
    /\ QueryDone =>
          /\ ret # 0 <=> HasDigitRun(args.out, QueryDigits[args.op][1],
                                     QueryDigits[args.op][2])
          /\ ret # 0 => ret \in QueryDigits[args.op][1]..QueryDigits[args.op][2]
    /\ args.op = "restart_modem" =>
          /\ pc = "verify" => ~GotImsi
          /\ (pc = "done" /\ hist.present = "true") => (ret = "true" <=> GotImsi)
          /\ hist.cimi = -1 <=> hist.imsi = << >>

\* restart_modem has reported success on an AT+CIMI exchange without OK.
C39_Witness ==
    /\ args.op = "restart_modem" /\ pc = "done" /\ ret = "true"
    /\ hist.cimi = 1

\* Each query has returned a value from a response that lacks OK.
C39_WitnessImei ==
    /\ QueryDone /\ args.op = "get_imei" /\ args.code = 1 /\ ret = 14

C39_WitnessIccid ==
    /\ QueryDone /\ args.op = "get_iccid" /\ args.code = 1 /\ ret = 22

====
